---- MODULE Spec2Model ----
\* Model of the memvid RAG agent: the LangGraph pipeline built by
\* MemvidRAGAgent._build_graph (src/memvid_rag/agent.py), the node functions of
\* src/memvid_rag/utils/nodes.py and the helpers of src/memvid_rag/utils/tools.py.
\*
\* A request is one call of MemvidRAGAgent.query.  Each graph node is one atomic
\* action (the node bodies hold no await), except response_generator, which is
\* split at its only suspension point, `await llm.ainvoke(messages)`.
\* Python lists are objects: `heap` holds them, and a ConversationState's
\* "messages" is a reference into it, as is a session's "messages".
EXTENDS Integers, Sequences, FiniteSets, TLC

VARIABLES
    session_data,     \* agent.session_data: session id -> list reference (0: no record)
    heap,             \* the list objects holding message histories
    active_memories,  \* agent.active_memories: handles in dict insertion order
    storage,          \* memory names whose content+index artifacts are on disk
    now,              \* the wall clock, in seconds (names carry a timestamp)
    req,              \* per task slot: the ConversationState and the position in query()
    nreq,             \* number of query() calls made so far
    agent,            \* the MemvidRAGAgent object: its constructor's arguments and progress
    created_at        \* session id -> time its record was created, -1 while there is none

vars == <<session_data, heap, active_memories, storage, now, req, nreq, agent, created_at>>

-----------------------------------------------------------------------------
\* Bounds of the model

MaxRequests == 2
MaxClock == 1

Slots == {1, 2}
SessionIds == {"default", "s2"}

-----------------------------------------------------------------------------
\* Small helpers

Range(s) == {s[i] : i \in 1..Len(s)}

Min(a, b) == IF a <= b THEN a ELSE b

IsPrefix(s, t) == Len(s) <= Len(t) /\ SubSeq(t, 1, Len(s)) = s

Take(s, n) == SubSeq(s, 1, Min(n, Len(s)))

NoDuplicates(s) == \A i, j \in 1..Len(s) : i # j => s[i] # s[j]

RECURSIVE SetToSeq(_)
SetToSeq(S) == IF S = {} THEN <<>>
               ELSE LET x == CHOOSE y \in S : TRUE IN <<x>> \o SetToSeq(S \ {x})

-----------------------------------------------------------------------------
\* Utterances: lower-cased token sequences.  A quoted token keeps its quotes.

Utterances ==
    { <<"what", "is", "machine", "learning?">>,
      <<"debug", "hello">>,
      <<"ingest", "\"a.pdf\"", "\"b.txt\"">>,
      <<"add", "\"a.pdf\"", "\"c.exe\"">>,
      <<"ingest", "\"missing.pdf\"">>,
      <<"ingest", "my", "files">>,
      <<"documents/">>,
      <<"list", "memories">>,
      <<"show", "statistics">>,
      <<"stats">>,
      <<"manage">> }

\* The patterns of parse_query_intent that occur as substrings of a token
\* (Python's `pattern in query_lower`); "show" holds both "show" and "how".
PatternsIn(tok) ==
    CASE tok = "what"       -> {"what"}
      [] tok = "ingest"     -> {"ingest"}
      [] tok = "add"        -> {"add"}
      [] tok = "list"       -> {"list"}
      [] tok = "show"       -> {"show", "how"}
      [] tok = "stats"      -> {"stats"}
      [] tok = "statistics" -> {"statistics"}
      [] tok = "manage"     -> {"manage"}
      [] tok = "debug"      -> {"debug"}
      [] tok = "delete"     -> {"delete"}
      [] OTHER              -> {}

Contains(u, pattern) == \E i \in 1..Len(u) : pattern \in PatternsIn(u[i])

ContainsAny(u, patterns) == \E p \in patterns : Contains(u, p)

ingestion_patterns ==
    {"ingest", "add", "load", "import", "process", "index",
     "upload", "include", "incorporate"}

search_patterns ==
    {"search", "find", "what", "how", "when", "where", "why",
     "explain", "describe", "tell me", "show me"}

management_patterns ==
    {"list", "show", "stats", "statistics", "status",
     "manage", "delete", "remove", "clear"}

\* The path a quoted token yields under r'"([^"]+\.[a-zA-Z]{2,4})"' or
\* r"'([^']+\.[a-zA-Z]{2,4})'".
QuotedPath(tok) ==
    CASE tok = "\"a.pdf\""       -> {"a.pdf"}
      [] tok = "'b.txt'"         -> {"b.txt"}
      [] tok = "\"b.txt\""       -> {"b.txt"}
      [] tok = "\"c.exe\""       -> {"c.exe"}
      [] tok = "\"missing.pdf\"" -> {"missing.pdf"}
      [] OTHER                   -> {}

\* The path a bare token yields under the unquoted patterns (none of the
\* vocabulary's bare tokens ends in an extension).
BarePath(tok) == {}

extract_document_paths(u) ==
    LET quoted == UNION {QuotedPath(u[i]) : i \in 1..Len(u)}
        bare   == UNION {BarePath(u[i]) : i \in 1..Len(u)}
    IN  IF quoted # {} THEN quoted ELSE bare

\* r'([/\\]?[\w\-_.]+[/\\])': a token with a trailing slash.
extract_directory_from_query(u) ==
    {u[i] : i \in {j \in 1..Len(u) : u[j] = "documents/"}}

\* parse_query_intent deciding on the keyword lists alone.
parse_query_intent_keywords_only(u) ==
    IF ContainsAny(u, ingestion_patterns) THEN "ingest"
    ELSE IF ContainsAny(u, management_patterns) THEN "manage"
    ELSE IF ContainsAny(u, search_patterns) THEN "search"
    ELSE "chat"

\* parse_query_intent testing the search keywords before the management ones.
parse_query_intent_search_first(u) ==
    IF \/ ContainsAny(u, ingestion_patterns)
       \/ extract_document_paths(u) # {}
       \/ extract_directory_from_query(u) # {}
    THEN "ingest"
    ELSE IF ContainsAny(u, search_patterns) THEN "search"
    ELSE IF ContainsAny(u, management_patterns) THEN "manage"
    ELSE "chat"

parse_query_intent(u) ==
    IF \/ ContainsAny(u, ingestion_patterns)
       \/ extract_document_paths(u) # {}
       \/ extract_directory_from_query(u) # {}
    THEN "ingest"
    ELSE IF ContainsAny(u, management_patterns) THEN "manage"
    ELSE IF ContainsAny(u, search_patterns) THEN "search"
    ELSE "chat"

-----------------------------------------------------------------------------
\* The file system the requests see

ExistingFiles == {"a.pdf", "b.txt", "c.exe", "documents/d.md"}

Suffix(path) ==
    CASE path \in {"a.pdf", "missing.pdf"} -> ".pdf"
      [] path = "b.txt"                    -> ".txt"
      [] path = "c.exe"                    -> ".exe"
      [] path = "documents/d.md"           -> ".md"
      [] OTHER                             -> ""

Stem(path) ==
    CASE path = "a.pdf"          -> "a"
      [] path = "b.txt"          -> "b"
      [] path = "documents/d.md" -> "d"
      [] OTHER                   -> "x"

supported_extensions == {".pdf", ".txt", ".epub", ".md", ".docx"}

validate_file_paths(paths) ==
    [valid   |-> {p \in paths : p \in ExistingFiles /\ Suffix(p) \in supported_extensions},
     invalid |-> {p \in paths : ~(p \in ExistingFiles /\ Suffix(p) \in supported_extensions)}]

scan_directory_for_documents(dir) ==
    IF dir = "documents/" THEN {"documents/d.md"} ELSE {}

\* ingest_documents_node's own directory fallback: the stretch of the lower-cased
\* query around a word documents?/files?/folder, used as a path if it exists.
DirectoryFallback(u) ==
    IF u = <<"documents/">> THEN scan_directory_for_documents("documents/") ELSE {}

\* Memory names: a base and the timestamp of generate_memory_name.
MemName(base, ts) == [base |-> base, ts |-> ts]

generate_memory_name(documents, ts) ==
    IF Cardinality(documents) = 1
    THEN MemName(Stem(CHOOSE d \in documents : TRUE), ts)
    ELSE IF Cardinality(documents) > 1 THEN MemName("documents", ts)
    ELSE MemName("memory", ts)

-----------------------------------------------------------------------------
\* Values carried by a request

\* A response text: its kind, and the names, numbers and strings rendered in it.
Resp(kind, names, nums, text) ==
    [kind |-> kind, names |-> names, nums |-> nums, text |-> text]

NoResponse == Resp("", <<>>, <<>>, <<>>)

\* A turn of the history: HumanMessage(prompt of request rid) or AIMessage.
Msg(role, rid, kind) == [role |-> role, rid |-> rid, kind |-> kind]

\* state["context"]: [] | the texts of the top chunks | [assembled_context].
Ctx(form, chunks) == [form |-> form, chunks |-> chunks]

EmptyContext == Ctx("empty", <<>>)

\* What one handle's retriever.search(query, top_k=5) does: raise, or return an
\* ordered list of (text, score); the text is identified by source and rank.
SearchOutcomes ==
    { [ok |-> FALSE, scores |-> <<>>],
      [ok |-> TRUE,  scores |-> <<>>],
      [ok |-> TRUE,  scores |-> <<2, 1>>] }

\* Memories found on disk at start-up; PreExisting[i] is scanned i-th.
PreExisting == <<MemName("m1", 0), MemName("m2", 0)>>

IdleReq ==
    [pc |-> "idle", rid |-> 0, session_id |-> "default", query |-> <<>>,
     messages |-> 0, context |-> EmptyContext, retrieved_chunks |-> <<>>,
     response |-> NoResponse, intent |-> "", processing_status |-> "",
     memory_paths |-> <<>>, error_message |-> "",
     \* history variables, for stating properties
     executed |-> <<>>, hist_before |-> <<>>, hist_after |-> <<>>,
     trail |-> <<>>, caught |-> <<>>, fanout |-> <<>>, llm_calls |-> 0, ingestion_stats |-> <<>>,
     llm_failed |-> FALSE, overlapped |-> {}, registry_at_retrieval |-> <<>>,
     \* the convenience method that made the call, its memory_name argument
     \* and the memory_name of the dictionary it returned
     api |-> "", memory_name_arg |-> <<>>, result_memory_name |-> <<>>]

InFlight(s) == req[s].pc \notin {"idle", "returned"}

\* The history of a session, as query() would read it now.
History(sid) == IF session_data[sid] = 0 THEN <<>> ELSE heap[session_data[sid]]

-----------------------------------------------------------------------------
\* The graph: route_query and the static edges of _build_graph

\* route_query without the "error" entry of the routing table.
route_query_without_error(intent) ==
    CASE intent = "ingest" -> "document_ingestor"
      [] intent = "manage" -> "memory_manager"
      [] OTHER             -> "semantic_retriever"

\* route_query whose table has no default.
route_query_partial(intent) ==
    CASE intent = "ingest" -> "document_ingestor"
      [] intent = "search" -> "semantic_retriever"
      [] intent = "chat"   -> "semantic_retriever"
      [] intent = "manage" -> "memory_manager"
      [] intent = "error"  -> "error_handler"
      [] OTHER             -> "END"

route_query(intent) ==
    CASE intent = "ingest" -> "document_ingestor"
      [] intent = "search" -> "semantic_retriever"
      [] intent = "chat"   -> "semantic_retriever"
      [] intent = "manage" -> "memory_manager"
      [] intent = "error"  -> "error_handler"
      [] OTHER             -> "semantic_retriever"

\* Edge with the memory manager wired into the retrieval chain.
EdgeMiswired(node) ==
    CASE node = "document_ingestor"  -> "END"
      [] node = "semantic_retriever" -> "context_assembler"
      [] node = "context_assembler"  -> "response_generator"
      [] node = "response_generator" -> "END"
      [] node = "memory_manager"     -> "response_generator"
      [] node = "error_handler"      -> "END"

\* Edge with a retry edge from the generator back to the retriever.
EdgeWithRetry(node) ==
    CASE node = "document_ingestor"  -> "END"
      [] node = "semantic_retriever" -> "context_assembler"
      [] node = "context_assembler"  -> "response_generator"
      [] node = "response_generator" -> "semantic_retriever"
      [] node = "memory_manager"     -> "END"
      [] node = "error_handler"      -> "END"

Edge(node) ==
    CASE node = "document_ingestor"  -> "END"
      [] node = "semantic_retriever" -> "context_assembler"
      [] node = "context_assembler"  -> "response_generator"
      [] node = "response_generator" -> "END"
      [] node = "memory_manager"     -> "END"
      [] node = "error_handler"      -> "END"

\* NextNode sending a failed retrieval or assembly to the error handler.
NextNodeErrorsHandled(node, st) ==
    IF node = "query_analyzer" THEN route_query(st.intent)
    ELSE IF /\ node \in {"semantic_retriever", "context_assembler"}
            /\ st.processing_status \in {"no_memories", "retrieval_error",
                                          "no_context", "assembly_error"}
    THEN "error_handler"
    ELSE Edge(node)

\* The node that runs after `node` has returned state `st`.
NextNode(node, st) ==
    IF node = "query_analyzer" THEN route_query(st.intent) ELSE Edge(node)

\* A node has run: record it and move along the graph.
Ran(s, node, st) ==
    req' = [req EXCEPT ![s] = [st EXCEPT !.pc = NextNode(node, st),
                                         !.executed = Append(@, node),
                                         !.trail = Append(@, st.processing_status)]]

-----------------------------------------------------------------------------
\* Start-up and reload

\* _load_existing_memories over the names `loadable`, in scan order.
\* LoadedFrom giving up at the first memory that does not load.
RECURSIVE LoadedFromUntilFailure(_, _)
LoadedFromUntilFailure(names, loadable) ==
    IF names = <<>> \/ Head(names) \notin loadable THEN <<>>
    ELSE <<[name |-> Head(names), obj |-> 0]>>
         \o LoadedFromUntilFailure(Tail(names), loadable)

RECURSIVE LoadedFrom(_, _)
LoadedFrom(names, loadable) ==
    IF names = <<>> THEN <<>>
    ELSE (IF Head(names) \in loadable
          THEN <<[name |-> Head(names), obj |-> 0]>> ELSE <<>>)
         \o LoadedFrom(Tail(names), loadable)

\* The scan order of glob("*.mp4"): the pre-existing memories first.
ScanOrder(onDisk) ==
    SelectSeq(PreExisting, LAMBDA n : n \in onDisk)
    \o SetToSeq(onDisk \ Range(PreExisting))

\* The providers _get_api_key and _initialize_llm know, in the order of
\* validate_api_keys.
Providers == <<"openai", "anthropic", "google">>

\* The agent object when __init__ is entered: llm_provider ("" for None) and
\* whether api_key was passed; `configured` holds the providers whose key is
\* set in the environment and default_provider is DEFAULT_LLM_PROVIDER.
NewAgent(llm_provider, api_key, configured, default) ==
    [phase |-> "new", arg_provider |-> llm_provider, arg_key |-> api_key,
     configured |-> configured, default_provider |-> default,
     llm_provider |-> "", has_key |-> FALSE, llm |-> FALSE,
     graph |-> FALSE, registry |-> FALSE, sessions |-> FALSE, error |-> ""]

ConstructionFailed(a, why) == [a EXCEPT !.phase = "failed", !.error = why]

\* get_available_providers()
get_available_providers(a) == SelectSeq(Providers, LAMBDA p : p \in a.configured)

\* SetupLLM without the fallback to another configured provider.
SetupLLMNoFallback(a, clientOk) ==
    LET provider == IF a.arg_provider # "" THEN a.arg_provider ELSE a.default_provider
        has_key  == a.arg_key \/ provider \in a.configured
    IN  IF ~has_key THEN ConstructionFailed(a, "no_api_keys")
        ELSE IF provider \notin Range(Providers)
        THEN ConstructionFailed([a EXCEPT !.llm_provider = provider, !.has_key = TRUE],
                                "unsupported_provider")
        ELSE IF ~clientOk
        THEN ConstructionFailed([a EXCEPT !.llm_provider = provider, !.has_key = TRUE],
                                "llm_client")
        ELSE [a EXCEPT !.llm_provider = provider, !.has_key = TRUE,
                       !.llm = TRUE, !.phase = "llm_ready"]

\* __init__, lines 83-100: choose provider and key, else fall back to the
\* first configured provider, else raise; then _initialize_llm, which raises
\* for a provider it does not know or when the client constructor raises.
SetupLLM(a, clientOk) ==
    LET asked    == IF a.arg_provider # "" THEN a.arg_provider ELSE a.default_provider
        own_key  == a.arg_key \/ asked \in a.configured
        avail    == get_available_providers(a)
        provider == IF own_key \/ avail = <<>> THEN asked ELSE Head(avail)
        has_key  == own_key \/ avail # <<>>
    IN  IF ~has_key THEN ConstructionFailed(a, "no_api_keys")
        ELSE IF provider \notin Range(Providers)
        THEN ConstructionFailed([a EXCEPT !.llm_provider = provider, !.has_key = TRUE],
                                "unsupported_provider")
        ELSE IF ~clientOk
        THEN ConstructionFailed([a EXCEPT !.llm_provider = provider, !.has_key = TRUE],
                                "llm_client")
        ELSE [a EXCEPT !.llm_provider = provider, !.has_key = TRUE,
                       !.llm = TRUE, !.phase = "llm_ready"]

\* __init__, lines 102-116, once the storage directory exists.
CoreBuilt(a) ==
    [a EXCEPT !.graph = TRUE, !.registry = TRUE, !.sessions = TRUE, !.phase = "ready"]

\* An agent constructed with the defaults and an OpenAI key in the environment.
ReadyAgent ==
    CoreBuilt(SetupLLM(NewAgent("", FALSE, {"openai"}, "openai"), TRUE))

Init ==
    /\ session_data = [sid \in SessionIds |-> 0]
    /\ heap = <<>>
    /\ storage \in {{}, Range(PreExisting)}
    /\ \E loadable \in SUBSET storage :
           active_memories = LoadedFrom(ScanOrder(storage), loadable)
    /\ now = 0
    /\ req = [s \in Slots |-> IdleReq]
    /\ nreq = 0
    /\ agent = ReadyAgent
    /\ created_at = [sid \in SessionIds |-> IF session_data[sid] = 0 THEN -1 ELSE 0]

\* MemvidRAGAgent.reload_memories
reload_memories ==
    /\ \E loadable \in SUBSET storage :
           active_memories' = LoadedFrom(ScanOrder(storage), loadable)
    /\ UNCHANGED <<session_data, heap, storage, now, req, nreq, agent, created_at>>

Tick ==
    /\ now < MaxClock
    /\ now' = now + 1
    /\ UNCHANGED <<session_data, heap, active_memories, storage, req, nreq, agent, created_at>>

-----------------------------------------------------------------------------
\* MemvidRAGAgent.query, up to the graph invocation

\* SessionCreated stamping the record at every call.
SessionCreatedAnew(ca, sd, sid, t) == [ca EXCEPT ![sid] = t]

\* "created_at": datetime.now() of the record made when session_id is not in
\* self.session_data (lines 274-278).
SessionCreated(ca, sd, sid, t) ==
    IF sd[sid] = 0 THEN [ca EXCEPT ![sid] = t] ELSE ca

\* query(text, session_id) with text drawn from `utterances` and session_id
\* from `sessions`.
query_start_on(s, utterances, sessions) ==
    /\ ~InFlight(s)
    /\ nreq < MaxRequests
    /\ \E sid \in sessions, u \in utterances :
         LET fresh == session_data[sid] = 0
             ref   == IF fresh THEN Len(heap) + 1 ELSE session_data[sid]
             h     == IF fresh THEN Append(heap, <<>>) ELSE heap
         IN  /\ heap' = h
             /\ session_data' = [session_data EXCEPT ![sid] = ref]
             /\ req' = [req EXCEPT ![s] =
                          [IdleReq EXCEPT !.pc = "query_analyzer",
                                          !.rid = nreq + 1,
                                          !.session_id = sid,
                                          !.query = u,
                                          !.messages = ref,
                                          !.processing_status = "initialized",
                                          !.trail = <<"initialized">>,
                                          !.hist_before = h[ref]]]
             /\ created_at' = SessionCreated(created_at, session_data, sid, now)
    /\ nreq' = nreq + 1
    /\ UNCHANGED <<active_memories, storage, now, agent>>

query_start(s, utterances) == query_start_on(s, utterances, SessionIds)

\* analyze_query_node, the try branch
analyze_query_node(s) ==
    /\ req[s].pc = "query_analyzer"
    /\ Ran(s, "query_analyzer",
           [req[s] EXCEPT !.intent = parse_query_intent(req[s].query),
                          !.processing_status = "analyzed"])
    /\ UNCHANGED <<session_data, heap, active_memories, storage, now, nreq, agent, created_at>>

\* analyze_query_node, the except branch (parse_query_intent raised)
analyze_query_except(s) ==
    /\ req[s].pc = "query_analyzer"
    /\ Ran(s, "query_analyzer",
           [req[s] EXCEPT !.intent = "error",
                          !.processing_status = "analysis_error",
                          !.error_message = "analysis failure",
                          !.caught = Append(@, "query_analyzer")])
    /\ UNCHANGED <<session_data, heap, active_memories, storage, now, nreq, agent, created_at>>

-----------------------------------------------------------------------------
\* document_ingestor: ingest_documents_node and _wrap_ingest_documents

FileOutcomes == {"chunks", "empty", "raise"}

\* RegistryPut that drops the handles registered before.
RegistryPutAlone(reg, name, obj) == <<[name |-> name, obj |-> obj]>>

\* self.active_memories[memory_name] = retriever
RegistryPut(reg, name, obj) ==
    IF \E i \in 1..Len(reg) : reg[i].name = name
    THEN [i \in 1..Len(reg) |->
             IF reg[i].name = name THEN [name |-> name, obj |-> obj] ELSE reg[i]]
    ELSE Append(reg, [name |-> name, obj |-> obj])

RegistryNames(reg) == {reg[i].name : i \in 1..Len(reg)}

\* The paths the node works on: the extracted ones, else the directory fallback.
DocumentPaths(u) ==
    IF extract_document_paths(u) # {} THEN extract_document_paths(u)
    ELSE DirectoryFallback(u)

create_ingestion_summary(processed, failed, chunks, name, invalid) ==
    Resp("ingestion_summary", <<name>>, <<processed, failed, chunks>>,
         SetToSeq(invalid))

\* IngestResult going on to build a memory without testing valid_paths.
IngestResultUnvalidated(st, per, ts) ==
    LET paths == DocumentPaths(st.query)
        v     == validate_file_paths(paths)
        name  == generate_memory_name(v.valid, ts)
    IN  IF paths = {}
        THEN [st EXCEPT !.response = Resp("no_document_paths", <<>>, <<>>, <<>>),
                        !.processing_status = "no_documents"]
        ELSE [st EXCEPT !.memory_paths = <<name>>,
                        !.response = create_ingestion_summary(
                                         Cardinality(v.valid), 0, 0, name, v.invalid),
                        !.processing_status = "ingestion_complete"]

\* The loop of lines 149-170 leaving at the first file that raises.
IngestionLoopAborting(valid, per) ==
    LET order == SetToSeq(valid)
        stop  == IF \E i \in 1..Len(order) : per[order[i]] = "raise"
                 THEN CHOOSE i \in 1..Len(order) :
                          /\ per[order[i]] = "raise"
                          /\ \A j \in 1..(i - 1) : per[order[j]] # "raise"
                 ELSE Len(order)
        seen  == {order[i] : i \in 1..stop}
    IN  [processed    |-> Cardinality({p \in seen : per[p] # "raise"}),
         failed       |-> Cardinality({p \in seen : per[p] = "raise"}),
         total_chunks |-> Cardinality({p \in seen : per[p] = "chunks"}),
         attempted    |-> SubSeq(order, 1, stop)]

\* ingestion_stats after `for doc_path in valid_paths` (lines 149-170): each
\* path is tried in turn; one that raises counts as failed and the loop goes
\* on, any other counts as processed.  `attempted` lists the paths the loop
\* body ran for.
IngestionLoop(valid, per) ==
    [processed    |-> Cardinality({p \in valid : per[p] # "raise"}),
     failed       |-> Cardinality({p \in valid : per[p] = "raise"}),
     total_chunks |-> Cardinality({p \in valid : per[p] = "chunks"}),
     attempted    |-> SetToSeq(valid)]

\* The state ingest_documents_node returns when nothing outside the per-file
\* loop raises: `per` gives what adding each valid file does.
IngestResult(st, per, ts) ==
    LET paths     == DocumentPaths(st.query)
        v         == validate_file_paths(paths)
        name      == generate_memory_name(v.valid, ts)
        stats     == IngestionLoop(v.valid, per)
        processed == stats.processed
        failed    == stats.failed
        chunks    == stats.total_chunks
    IN  IF paths = {}
        THEN [st EXCEPT !.response = Resp("no_document_paths", <<>>, <<>>, <<>>),
                        !.processing_status = "no_documents"]
        ELSE IF v.valid = {}
        THEN [st EXCEPT !.response = Resp("no_valid_documents", <<>>, <<>>,
                                          SetToSeq(v.invalid)),
                        !.processing_status = "invalid_documents"]
        ELSE IF chunks > 0
        THEN [st EXCEPT !.memory_paths = <<name>>,
                        !.ingestion_stats = <<stats>>,
                        !.response = create_ingestion_summary(
                                         processed, failed, chunks, name, v.invalid),
                        !.processing_status = "ingestion_complete"]
        ELSE [st EXCEPT !.ingestion_stats = <<stats>>,
                        !.response = Resp("no_content", <<>>, <<>>, <<>>),
                        !.processing_status = "ingestion_complete"]

ingest_documents_node(s) ==
    /\ req[s].pc = "document_ingestor"
    /\ LET valid == validate_file_paths(DocumentPaths(req[s].query)).valid IN
       \E per \in [valid -> FileOutcomes], loads \in BOOLEAN :
         LET st == IngestResult(req[s], per, now) IN
         /\ Ran(s, "document_ingestor", st)
         /\ storage' = storage \cup Range(st.memory_paths)
         /\ active_memories' =
                IF st.memory_paths # <<>> /\ loads
                THEN RegistryPut(active_memories, st.memory_paths[1], st.rid)
                ELSE active_memories
    /\ UNCHANGED <<session_data, heap, now, nreq, agent, created_at>>

\* ingest_documents_node, the outer except branch: constructing the encoder,
\* build_video or stat raised.
ingest_documents_except(s) ==
    /\ req[s].pc = "document_ingestor"
    /\ validate_file_paths(DocumentPaths(req[s].query)).valid # {}
    /\ Ran(s, "document_ingestor",
           [req[s] EXCEPT !.response = Resp("ingestion_failed", <<>>, <<>>,
                                            <<"store failure">>),
                          !.processing_status = "ingestion_error",
                          !.error_message = "store failure",
                          !.caught = Append(@, "document_ingestor")])
    /\ UNCHANGED <<session_data, heap, active_memories, storage, now, nreq, agent, created_at>>

-----------------------------------------------------------------------------
\* semantic_retriever: retrieve_context_node

Chunk(source, rank, score) == [source |-> source, rank |-> rank, score |-> score]

\* ChunksOf tagging each chunk with the 0-based index of enumerate.
ChunksOfZeroBased(name, outcome) ==
    IF outcome.ok
    THEN [i \in 1..Len(outcome.scores) |-> Chunk(name, i - 1, outcome.scores[i])]
    ELSE <<>>

\* The chunks of one handle, in the order its search returned them.
ChunksOf(name, outcome) ==
    IF outcome.ok
    THEN [i \in 1..Len(outcome.scores) |-> Chunk(name, i, outcome.scores[i])]
    ELSE <<>>

\* Collect with the fan-out aborted by the first handle that raises.
RECURSIVE CollectAbortsOnFailure(_, _, _)
CollectAbortsOnFailure(reg, outcomes, k) ==
    IF k > Len(reg) \/ ~outcomes[k].ok THEN <<>>
    ELSE ChunksOf(reg[k].name, outcomes[k])
         \o CollectAbortsOnFailure(reg, outcomes, k + 1)

\* The chunks collected over the handles reg[k..], in iteration order.
RECURSIVE Collect(_, _, _)
Collect(reg, outcomes, k) ==
    IF k > Len(reg) THEN <<>>
    ELSE ChunksOf(reg[k].name, outcomes[k]) \o Collect(reg, outcomes, k + 1)

\* InsertDesc placing a chunk before the chunks of equal score.
RECURSIVE InsertDescUnstable(_, _)
InsertDescUnstable(sorted, c) ==
    IF sorted = <<>> THEN <<c>>
    ELSE IF Head(sorted).score > c.score
         THEN <<Head(sorted)>> \o InsertDescUnstable(Tail(sorted), c)
         ELSE <<c>> \o sorted

\* list.sort(key=score, reverse=True): stable, descending.
RECURSIVE InsertDesc(_, _)
InsertDesc(sorted, c) ==
    IF sorted = <<>> THEN <<c>>
    ELSE IF Head(sorted).score >= c.score
         THEN <<Head(sorted)>> \o InsertDesc(Tail(sorted), c)
         ELSE <<c>> \o sorted

RECURSIVE SortDesc(_)
SortDesc(chunks) ==
    IF chunks = <<>> THEN <<>>
    ELSE InsertDesc(SortDesc(SubSeq(chunks, 1, Len(chunks) - 1)),
                    chunks[Len(chunks)])

MaxRetrieved == 10
MaxContext == 5

RetrieveResult(st, reg, outcomes) ==
    IF reg = <<>>
    THEN [st EXCEPT !.context = EmptyContext,
                    !.retrieved_chunks = <<>>,
                    !.processing_status = "no_memories"]
    ELSE LET sorted == SortDesc(Collect(reg, outcomes, 1))
             top    == Take(sorted, MaxContext)
         IN  [st EXCEPT !.retrieved_chunks = Take(sorted, MaxRetrieved),
                        !.context = IF top = <<>> THEN EmptyContext
                                    ELSE Ctx("texts", top),
                        !.processing_status = "context_retrieved"]

\* The node, with each handle's search drawn from `searches`.
retrieve_context(s, searches) ==
    /\ req[s].pc = "semantic_retriever"
    /\ \E outcomes \in [1..Len(active_memories) -> searches] :
         Ran(s, "semantic_retriever",
             [RetrieveResult(req[s], active_memories, outcomes)
                EXCEPT !.fanout = outcomes,
                       !.registry_at_retrieval = active_memories])
    /\ UNCHANGED <<session_data, heap, active_memories, storage, now, nreq, agent, created_at>>

retrieve_context_node(s) == retrieve_context(s, SearchOutcomes)

\* retrieve_context_node, the outer except branch
retrieve_context_except(s) ==
    /\ req[s].pc = "semantic_retriever"
    /\ Ran(s, "semantic_retriever",
           [req[s] EXCEPT !.context = EmptyContext,
                          !.retrieved_chunks = <<>>,
                          !.processing_status = "retrieval_error",
                          !.error_message = "retrieval failure",
                          !.caught = Append(@, "semantic_retriever")])
    /\ UNCHANGED <<session_data, heap, active_memories, storage, now, nreq, agent, created_at>>

-----------------------------------------------------------------------------
\* context_assembler: assemble_context_node

\* AssembleResult rendering every retrieved chunk.
AssembleResultUntruncated(st) ==
    IF st.retrieved_chunks = <<>>
    THEN [st EXCEPT !.context = EmptyContext,
                    !.processing_status = "no_context"]
    ELSE [st EXCEPT !.context = Ctx("assembled", st.retrieved_chunks),
                    !.processing_status = "context_assembled"]

AssembleResult(st) ==
    IF st.retrieved_chunks = <<>>
    THEN [st EXCEPT !.context = EmptyContext,
                    !.processing_status = "no_context"]
    ELSE [st EXCEPT !.context = Ctx("assembled", Take(st.retrieved_chunks, MaxContext)),
                    !.processing_status = "context_assembled"]

assemble_context_node(s) ==
    /\ req[s].pc = "context_assembler"
    /\ Ran(s, "context_assembler", AssembleResult(req[s]))
    /\ UNCHANGED <<session_data, heap, active_memories, storage, now, nreq, agent, created_at>>

assemble_context_except(s) ==
    /\ req[s].pc = "context_assembler"
    /\ Ran(s, "context_assembler",
           [req[s] EXCEPT !.processing_status = "assembly_error",
                          !.error_message = "assembly failure",
                          !.caught = Append(@, "context_assembler")])
    /\ UNCHANGED <<session_data, heap, active_memories, storage, now, nreq, agent, created_at>>

-----------------------------------------------------------------------------
\* response_generator: generate_response_node

\* `if not context`: the prompt explains that nothing was found, else it
\* carries the context.
PromptKind(st) ==
    IF st.context = EmptyContext THEN "no_context_prompt" ELSE "context_prompt"

\* Lines 335-370: build the prompt and messages.append(HumanMessage(prompt)).
\* `messages` is state["messages"] itself, so the list object grows in place.
\* PromptAppended that leaves the prompt out of the history.
PromptNotAppended(h, st) == h

PromptAppended(h, st) ==
    [h EXCEPT ![st.messages] = Append(@, Msg("human", st.rid, PromptKind(st)))]

generate_response_start(s) ==
    /\ req[s].pc = "response_generator"
    /\ heap' = PromptAppended(heap, req[s])
    /\ LET waiting == {t \in Slots \ {s} : /\ req[t].pc = "llm_wait"
                                            /\ req[t].session_id = req[s].session_id}
       IN  req' = [t \in Slots |->
                     IF t = s
                     THEN [req[s] EXCEPT !.pc = "llm_wait",
                                         !.executed = Append(@, "response_generator"),
                                         !.llm_calls = @ + 1,
                                         !.overlapped = {req[u].rid : u \in waiting}]
                     ELSE IF t \in waiting
                     THEN [req[t] EXCEPT !.overlapped = @ \cup {req[s].rid}]
                     ELSE req[t]]
    /\ UNCHANGED <<session_data, active_memories, storage, now, nreq, agent, created_at>>

\* MessagesAfterAnswer keeping only the new turn.
MessagesAfterAnswerOnlyTurn(h, st) ==
    <<Msg("human", st.rid, PromptKind(st)), Msg("ai", st.rid, "answer")>>

\* Lines 377-379 on the list `messages` refers to: the list state["messages"]
\* is bound to is a new one, messages + [AIMessage(response)].
MessagesAfterAnswer(h, st) ==
    Append(h[st.messages], Msg("ai", st.rid, "answer"))

\* llm.ainvoke returned
generate_response_node(s) ==
    /\ req[s].pc = "llm_wait"
    /\ heap' = Append(heap, MessagesAfterAnswer(heap, req[s]))
    /\ req' = [req EXCEPT ![s] =
                 [@ EXCEPT !.response = Resp("llm_answer", <<>>, <<req[s].rid>>, <<>>),
                           !.messages = Len(heap) + 1,
                           !.processing_status = "response_generated",
                           !.trail = Append(@, "response_generated"),
                           !.pc = Edge("response_generator")]]
    /\ UNCHANGED <<session_data, active_memories, storage, now, nreq, agent, created_at>>

\* GenerationFailed tagging the failure with the retriever's status.
GenerationFailedWrongTag(st) ==
    [st EXCEPT !.response = Resp("generation_failed", <<>>, <<>>, <<"llm failure">>),
               !.processing_status = "retrieval_error",
               !.error_message = "llm failure",
               !.llm_failed = TRUE,
               !.caught = Append(@, "response_generator"),
               !.trail = Append(@, "retrieval_error"),
               !.pc = Edge("response_generator")]

\* GenerationFailed that swallows the exception without recording it.
GenerationFailedUnrecorded(st) ==
    [st EXCEPT !.llm_failed = TRUE,
               !.caught = Append(@, "response_generator"),
               !.trail = Append(@, st.processing_status),
               !.pc = Edge("response_generator")]

\* The state the except branch of generate_response_node returns.
GenerationFailed(st) ==
    [st EXCEPT !.response = Resp("generation_failed", <<>>, <<>>, <<"llm failure">>),
               !.processing_status = "generation_error",
               !.error_message = "llm failure",
               !.llm_failed = TRUE,
               !.caught = Append(@, "response_generator"),
               !.trail = Append(@, "generation_error"),
               !.pc = Edge("response_generator")]

\* llm.ainvoke raised
generate_response_except(s) ==
    /\ req[s].pc = "llm_wait"
    /\ req' = [req EXCEPT ![s] = GenerationFailed(req[s])]
    /\ UNCHANGED <<session_data, heap, active_memories, storage, now, nreq, agent, created_at>>

-----------------------------------------------------------------------------
\* memory_manager: manage_memory_node

\* The names the listing shows: one entry per handle whose video file exists.
ListedNames(reg, onDisk) ==
    SelectSeq([i \in 1..Len(reg) |-> reg[i].name], LAMBDA n : n \in onDisk)

ManageResponse(u, reg, onDisk) ==
    IF Contains(u, "list") \/ Contains(u, "show")
    THEN IF reg # <<>>
         THEN Resp("memory_listing", ListedNames(reg, onDisk), <<>>, <<>>)
         ELSE Resp("no_memory_stores", <<>>, <<>>, <<>>)
    ELSE IF Contains(u, "stats") \/ Contains(u, "statistics")
    THEN IF reg # <<>>
         THEN Resp("memory_statistics", <<>>, <<Len(reg), Cardinality(onDisk)>>, <<>>)
         ELSE Resp("no_memory_statistics", <<>>, <<>>, <<>>)
    ELSE Resp("management_help", <<>>, <<>>, <<>>)

\* manage_memory_node emptying the registry when asked to delete.
manage_memory_node_clearing(s) ==
    /\ req[s].pc = "memory_manager"
    /\ Ran(s, "memory_manager",
           [req[s] EXCEPT !.response = ManageResponse(req[s].query, active_memories, storage),
                          !.processing_status = "memory_managed"])
    /\ active_memories' = IF Contains(req[s].query, "delete") THEN <<>> ELSE active_memories
    /\ UNCHANGED <<session_data, heap, storage, now, nreq, agent, created_at>>

manage_memory_node(s) ==
    /\ req[s].pc = "memory_manager"
    /\ Ran(s, "memory_manager",
           [req[s] EXCEPT !.response = ManageResponse(req[s].query, active_memories, storage),
                          !.processing_status = "memory_managed"])
    /\ UNCHANGED <<session_data, heap, active_memories, storage, now, nreq, agent, created_at>>

manage_memory_except(s) ==
    /\ req[s].pc = "memory_manager"
    /\ Ran(s, "memory_manager",
           [req[s] EXCEPT !.response = Resp("management_failed", <<>>, <<>>,
                                            <<"management failure">>),
                          !.processing_status = "management_error",
                          !.error_message = "management failure",
                          !.caught = Append(@, "memory_manager")])
    /\ UNCHANGED <<session_data, heap, active_memories, storage, now, nreq, agent, created_at>>

-----------------------------------------------------------------------------
\* error_handler: handle_errors_node

error_responses ==
    {"analysis_error", "ingestion_error", "retrieval_error", "generation_error",
     "no_memories", "no_context"}

\* base_response that answers every status with the generic message.
base_response_generic(status) == "unexpected_error"

\* error_responses.get(status.split(":")[0], generic): an explanation is named
\* by the status it belongs to, the generic one "unexpected_error".  No node
\* writes a status with a colon.
base_response(status) ==
    IF status \in error_responses THEN status ELSE "unexpected_error"

\* The explanations whose text holds the word "error" (lines 496-506):
\* "...an error analyzing...", "...an error processing...", "...an error
\* generating...", "An unexpected error occurred"; not "I couldn't search the
\* knowledge base properly", nor the no_memories and no_context texts.
ExplanationsWithError ==
    {"analysis_error", "ingestion_error", "generation_error", "unexpected_error"}

\* HandleErrorsResult appending the captured message whenever there is one.
HandleErrorsResultAlwaysDebug(st) ==
    [st EXCEPT !.response = Resp("error_explanation", <<>>, <<>>,
                                 IF st.error_message # ""
                                 THEN <<base_response(st.processing_status), st.error_message>>
                                 ELSE <<base_response(st.processing_status)>>),
               !.processing_status = "error_handled"]

HandleErrorsResult(st) ==
    LET base  == base_response(st.processing_status)
        debug == st.error_message # "" /\ Contains(st.query, "debug")
    IN  [st EXCEPT !.response = Resp("error_explanation", <<>>, <<>>,
                                     IF debug THEN <<base, st.error_message>>
                                     ELSE <<base>>),
                   !.processing_status = "error_handled"]

handle_errors_node(s) ==
    /\ req[s].pc = "error_handler"
    /\ Ran(s, "error_handler", HandleErrorsResult(req[s]))
    /\ UNCHANGED <<session_data, heap, active_memories, storage, now, nreq, agent, created_at>>

-----------------------------------------------------------------------------
\* MemvidRAGAgent.query, after the graph has ended (lines 299-307)

\* SessionWritten storing the history under every session id.
SessionWrittenEverywhere(sd, st) == [sid \in DOMAIN sd |-> st.messages]

\* self.session_data[session_id]["messages"] = result["messages"]
SessionWritten(sd, st) == [sd EXCEPT ![st.session_id] = st.messages]

query_return(s) ==
    /\ req[s].pc = "END"
    /\ session_data' = SessionWritten(session_data, req[s])
    /\ req' = [req EXCEPT ![s].pc = "returned",
                          ![s].hist_after = heap[session_data'[req[s].session_id]]]
    /\ UNCHANGED <<heap, active_memories, storage, now, nreq, agent, created_at>>

-----------------------------------------------------------------------------
\* Specifications

Step(s) ==
    \/ analyze_query_node(s)
    \/ analyze_query_except(s)
    \/ ingest_documents_node(s)
    \/ ingest_documents_except(s)
    \/ retrieve_context_node(s)
    \/ retrieve_context_except(s)
    \/ assemble_context_node(s)
    \/ assemble_context_except(s)
    \/ generate_response_start(s)
    \/ generate_response_node(s)
    \/ generate_response_except(s)
    \/ manage_memory_node(s)
    \/ manage_memory_except(s)
    \/ handle_errors_node(s)
    \/ query_return(s)

\* Calls of query() made one after the other on the default session
Next ==
    \/ query_start_on(1, Utterances, {"default"})
    \/ Step(1)

Spec == Init /\ [][Next]_vars

\* Calls of query() that may overlap: a second task runs while the first is
\* suspended (asyncio interleaves tasks at await points).  One utterance of
\* each branch is used.
ConcUtterances ==
    { <<"what", "is", "machine", "learning?">>, <<"list", "memories">>, <<"documents/">> }

ConcInit == Init /\ storage = {}

ConcNext == \E s \in Slots : query_start(s, ConcUtterances) \/ Step(s)

ConcSpec == ConcInit /\ [][ConcNext]_vars

-----------------------------------------------------------------------------
\* Vocabulary of the properties

Returned(s) == req[s].pc = "returned"

Last(q) == q[Len(q)]

BranchOf(node) ==
    CASE node = "document_ingestor"  -> "ingestion"
      [] node = "semantic_retriever" -> "retrieval"
      [] node = "context_assembler"  -> "retrieval"
      [] node = "response_generator" -> "retrieval"
      [] node = "memory_manager"     -> "management"
      [] node = "error_handler"      -> "error"
      [] OTHER                       -> "none"

BranchesRun(s) == {BranchOf(n) : n \in Range(req[s].executed)} \ {"none"}

RetrievalChain ==
    <<"query_analyzer", "semantic_retriever", "context_assembler", "response_generator">>

AnalysisOutcomes   == {"analyzed", "analysis_error"}
IngestionOutcomes  == {"ingestion_complete", "no_documents", "invalid_documents",
                       "ingestion_error"}
RetrievalOutcomes  == {"context_retrieved", "no_memories", "retrieval_error"}
AssemblyOutcomes   == {"context_assembled", "no_context", "assembly_error"}
GenerationOutcomes == {"response_generated", "generation_error"}
ManagementOutcomes == {"memory_managed", "management_error"}

ErrorTagged ==
    {"analysis_error", "ingestion_error", "no_documents", "invalid_documents",
     "retrieval_error", "no_memories", "assembly_error", "no_context",
     "generation_error", "management_error"}

\* The tag a node's except branch leaves
ErrorTagOf(node) ==
    CASE node = "query_analyzer"     -> "analysis_error"
      [] node = "document_ingestor"  -> "ingestion_error"
      [] node = "semantic_retriever" -> "retrieval_error"
      [] node = "context_assembler"  -> "assembly_error"
      [] node = "response_generator" -> "generation_error"
      [] node = "memory_manager"     -> "management_error"
      [] OTHER                       -> "none"

\* The edges of the stage graph
StageEdge(a, b) ==
    \/ a = "initialized" /\ b \in AnalysisOutcomes
    \/ a = "analyzed" /\ b \in IngestionOutcomes \cup RetrievalOutcomes \cup ManagementOutcomes
    \/ a \in RetrievalOutcomes /\ b \in AssemblyOutcomes
    \/ a \in AssemblyOutcomes /\ b \in GenerationOutcomes
    \/ a \in ErrorTagged /\ b = "error_handled"

-----------------------------------------------------------------------------
\* C1: after the analyzer, a request runs the nodes of exactly one of the four
\* branches (ingestion; retriever, assembler, generator; memory manager; error
\* handler), and no node of another branch.
C1_OneBranch ==
    \A s \in Slots :
        /\ Cardinality(BranchesRun(s)) <= 1
        /\ req[s].executed # <<>> => req[s].executed[1] = "query_analyzer"
        /\ req[s].pc \in {"END", "returned"} =>
              /\ Cardinality(BranchesRun(s)) = 1
              /\ BranchesRun(s) = {"retrieval"} => req[s].executed = RetrievalChain
              /\ BranchesRun(s) # {"retrieval"} => Len(req[s].executed) = 2

C1_Witness ==
    /\ Returned(1)
    /\ req[1].executed = RetrievalChain

\* C2 (as claimed): a request in which a node left an error-tagged status
\* passes through the error handler exactly once and ends error_handled.
C2_ErrorsReachHandler ==
    \A s \in Slots :
        (Returned(s) /\ Range(req[s].trail) \cap ErrorTagged # {}) =>
            /\ req[s].processing_status = "error_handled"
            /\ Len(SelectSeq(req[s].executed, LAMBDA n : n = "error_handler")) = 1

\* C3 (as claimed): when the generative collaborator raises, the response is
\* the failure message and the session history after query() returns equals
\* the history before the call.
C3_FailureLeavesHistory ==
    \A s \in Slots :
        (Returned(s) /\ req[s].llm_failed) =>
            /\ req[s].response.kind = "generation_failed"
            /\ req[s].hist_after = req[s].hist_before

\* The turns of requests a and b, in the order the history `h` holds them.
TurnsOf(h, a, b) == SelectSeq(h, LAMBDA m : m.rid \in {a, b})

Turn(rid, kind) == <<Msg("human", rid, kind), Msg("ai", rid, "answer")>>

\* C4 (as claimed): two calls on one session that were both suspended at the
\* generation call and both got an answer leave the history of some serial
\* order: each prompt immediately followed by its own answer, no turn lost.
C4_OverlapSerializes ==
    \A s, t \in Slots :
        ( /\ s # t /\ Returned(s) /\ Returned(t)
          /\ req[s].session_id = req[t].session_id
          /\ req[t].rid \in req[s].overlapped
          /\ ~req[s].llm_failed /\ ~req[t].llm_failed ) =>
            \E ks, kt \in {"no_context_prompt", "context_prompt"} :
                TurnsOf(History(req[s].session_id), req[s].rid, req[t].rid)
                    \in { Turn(req[s].rid, ks) \o Turn(req[t].rid, kt),
                          Turn(req[t].rid, kt) \o Turn(req[s].rid, ks) }

\* C5: across sequential calls the history of a session is append-only: the
\* history after a call has the history before it as a prefix.
C5_AppendOnly ==
    \A s \in Slots :
        Returned(s) => IsPrefix(req[s].hist_before, req[s].hist_after)

C5_Witness ==
    /\ Returned(1)
    /\ req[1].hist_before # <<>>
    /\ Len(req[1].hist_after) > Len(req[1].hist_before)

\* C6 (as claimed): a search or chat utterance processed with an empty registry
\* ends with status no_memories and the response that tells the user to ingest
\* documents, and never with retrieval_error.
C6_NoMemoriesOutcome ==
    \A s \in Slots :
        ( /\ Returned(s)
          /\ req[s].intent \in {"search", "chat"}
          /\ "no_memories" \in Range(req[s].trail) ) =>
            /\ req[s].processing_status = "no_memories"
            /\ req[s].response = Resp("error_explanation", <<>>, <<>>, <<"no_memories">>)

\* C7: within a request every change of processing_status follows an edge of
\* the stage graph; in particular it never goes back to an earlier stage.
C7_StageGraph ==
    [][\A s \in Slots :
          ( /\ req'[s].rid = req[s].rid
            /\ req'[s].processing_status # req[s].processing_status ) =>
              StageEdge(req[s].processing_status, req'[s].processing_status)]_vars

C7_Witness ==
    /\ Returned(1)
    /\ req[1].trail = <<"initialized", "analyzed", "no_memories", "no_context",
                        "response_generated">>

C9_Terminates ==
    \A s \in Slots :
        /\ Len(req[s].executed) <= 4
        /\ NoDuplicates(req[s].executed)
        /\ InFlight(s) => ENABLED Step(s)

C9_Witness ==
    /\ Returned(1)
    /\ Len(req[1].executed) = 4

\* The number of results the handles that did not raise returned
RECURSIVE ResultsReturned(_, _)
ResultsReturned(outcomes, k) ==
    IF k > Len(outcomes) THEN 0
    ELSE (IF outcomes[k].ok THEN Len(outcomes[k].scores) ELSE 0)
         + ResultsReturned(outcomes, k + 1)

\* C10: when some handles raise during search the fan-out goes on: every
\* handle has been searched, every result of a handle that did not raise is in
\* the merged list (up to the cut at 10), the status is context_retrieved, and
\* the list is non-empty if a handle returned a result.
C10_SourceIsolation ==
    \A s \in Slots :
        LET reg == req[s].registry_at_retrieval
            out == req[s].fanout
            got == req[s].retrieved_chunks
        IN  (req[s].pc = "context_assembler" /\ reg # <<>>) =>
              /\ DOMAIN out = 1..Len(reg)
              /\ req[s].processing_status = "context_retrieved"
              /\ Len(got) = Min(MaxRetrieved, ResultsReturned(out, 1))
              /\ \A c \in Range(got) :
                    \E k \in 1..Len(reg) :
                        /\ out[k].ok /\ reg[k].name = c.source
                        /\ c.rank \in 1..Len(out[k].scores)
                        /\ c.score = out[k].scores[c.rank]
              /\ ResultsReturned(out, 1) <= MaxRetrieved =>
                    \A k \in 1..Len(reg) : out[k].ok =>
                        \A i \in 1..Len(out[k].scores) :
                            Chunk(reg[k].name, i, out[k].scores[i]) \in Range(got)
              /\ (\E k \in 1..Len(reg) : out[k].ok /\ out[k].scores # <<>>) => got # <<>>

C10_Witness ==
    /\ req[1].pc = "context_assembler"
    /\ Len(req[1].registry_at_retrieval) >= 2
    /\ \E k \in 1..Len(req[1].fanout) : ~req[1].fanout[k].ok
    /\ \E k \in 1..Len(req[1].fanout) :
          req[1].fanout[k].ok /\ req[1].fanout[k].scores # <<>>
    /\ req[1].retrieved_chunks # <<>>

-----------------------------------------------------------------------------
\* The merge of retrieve_context_node as a function of the per-handle results:
\* three handles, each search raising or returning 0, 2 or top_k scored chunks.

top_k == 5

MergeMemories == <<MemName("m1", 0), MemName("m2", 0), MemName("m3", 0)>>

MergeScores == {1, 2}

\* Scores that only fall or only rise along the list.
Monotone(sc) ==
    \/ \A i \in 1..(Len(sc) - 1) : sc[i] >= sc[i + 1]
    \/ \A i \in 1..(Len(sc) - 1) : sc[i] <= sc[i + 1]

\* A handle raises, finds nothing, returns two results with any scores, or
\* returns top_k results whose scores fall or rise.
MergeOutcomes ==
    {[ok |-> FALSE, scores |-> <<>>]}
    \cup {[ok |-> TRUE, scores |-> sc] :
             sc \in [1..0 -> MergeScores] \cup [1..2 -> MergeScores]
                    \cup {l \in [1..top_k -> MergeScores] : Monotone(l)}}

\* A retrieval request has just been started on an agent with three memories.
MergeInit ==
    /\ session_data = [sid \in SessionIds |-> IF sid = "default" THEN 1 ELSE 0]
    /\ heap = << <<>> >>
    /\ storage = Range(MergeMemories)
    /\ active_memories = LoadedFrom(MergeMemories, storage)
    /\ now = 0
    /\ req = [s \in Slots |->
                IF s = 1
                THEN [IdleReq EXCEPT !.pc = "query_analyzer", !.rid = 1,
                                     !.query = <<"what", "is", "machine", "learning?">>,
                                     !.messages = 1,
                                     !.processing_status = "initialized",
                                     !.trail = <<"initialized">>]
                ELSE IdleReq]
    /\ nreq = 1
    /\ agent = ReadyAgent
    /\ created_at = [sid \in SessionIds |-> IF session_data[sid] = 0 THEN -1 ELSE 0]

MergeNext ==
    \/ analyze_query_node(1)
    \/ retrieve_context(1, MergeOutcomes)
    \/ assemble_context_node(1)

MergeSpec == MergeInit /\ [][MergeNext]_vars

\* Request s has been through the fan-out of retrieve_context_node.
Retrieved(s) ==
    /\ "semantic_retriever" \in Range(req[s].executed)
    /\ "semantic_retriever" \notin Range(req[s].caught)

\* Every chunk the handles returned to request s.
Candidates(s) ==
    UNION {{Chunk(req[s].registry_at_retrieval[k].name, i, req[s].fanout[k].scores[i]) :
              i \in 1..Len(req[s].fanout[k].scores)} :
           k \in {j \in 1..Len(req[s].fanout) : req[s].fanout[j].ok}}

\* The place of a handle in the iteration over the registry.
HandleIndex(s, name) ==
    CHOOSE k \in 1..Len(req[s].registry_at_retrieval) :
        req[s].registry_at_retrieval[k].name = name

\* c was collected before d: an earlier handle, or the same and a higher rank.
CollectedBefore(s, c, d) ==
    \/ HandleIndex(s, c.source) < HandleIndex(s, d.source)
    \/ c.source = d.source /\ c.rank < d.rank

\* c belongs before d in the merged list.
Outranks(s, c, d) ==
    \/ c.score > d.score
    \/ c.score = d.score /\ CollectedBefore(s, c, d)

\* C11: the merged chunk list is in non-increasing score order, chunks of equal
\* score keep the order they were collected in, and the order is that of the
\* whole merged list: a chunk cut off by the truncation never outranks a kept one.
C11_StableDescendingMerge ==
    \A s \in Slots : Retrieved(s) =>
        LET got == req[s].retrieved_chunks IN
        /\ Range(got) \subseteq Candidates(s)
        /\ Len(got) = Min(MaxRetrieved, Cardinality(Candidates(s)))
        /\ \A i, j \in 1..Len(got) : i < j => Outranks(s, got[i], got[j])
        /\ \A c \in Candidates(s) \ Range(got) :
               \A i \in 1..Len(got) : Outranks(s, got[i], c)

\* More chunks than are kept, a tie between two handles, and a chunk of the
\* first handle cut off while one of the last handle is kept.
C11_Witness ==
    /\ Retrieved(1)
    /\ Cardinality(Candidates(1)) > MaxRetrieved
    /\ \E i, j \in 1..Len(req[1].retrieved_chunks) :
           /\ i < j
           /\ req[1].retrieved_chunks[i].score = req[1].retrieved_chunks[j].score
           /\ req[1].retrieved_chunks[i].source # req[1].retrieved_chunks[j].source
    /\ \E c \in Candidates(1) \ Range(req[1].retrieved_chunks) :
           /\ c.source = MergeMemories[1]
           /\ \E i \in 1..Len(req[1].retrieved_chunks) :
                  req[1].retrieved_chunks[i].source = MergeMemories[3]

-----------------------------------------------------------------------------
\* Ingestion outcomes

\* The step in which request s leaves the ingestion node.
IngestionStep(s) ==
    /\ req[s].pc = "document_ingestor"
    /\ req'[s].pc # "document_ingestor"

ValidPaths(s) == validate_file_paths(DocumentPaths(req[s].query)).valid

\* C12: when the utterance yields no candidate path the ingestion node ends
\* no_documents, and when it yields candidates of which none is valid it ends
\* invalid_documents; in both cases no artifact is built, no memory descriptor
\* is set and no handle is registered.
C12_NothingToIngest ==
    [][\A s \in Slots :
         (IngestionStep(s) /\ ValidPaths(s) = {}) =>
             /\ DocumentPaths(req[s].query) = {}
                    => req'[s].processing_status = "no_documents"
             /\ DocumentPaths(req[s].query) # {}
                    => req'[s].processing_status = "invalid_documents"
             /\ req'[s].memory_paths = <<>>
             /\ storage' = storage
             /\ active_memories' = active_memories]_vars

\* A request whose only candidate path does not exist has returned.
C12_Witness ==
    /\ Returned(1)
    /\ req[1].executed = <<"query_analyzer", "document_ingestor">>
    /\ DocumentPaths(req[1].query) # {}
    /\ ValidPaths(1) = {}
    /\ req[1].processing_status = "invalid_documents"

\* Request s has returned from an ingestion whose node body did not raise.
Ingested(s) ==
    /\ Returned(s)
    /\ req[s].executed = <<"query_analyzer", "document_ingestor">>
    /\ req[s].caught = <<>>

\* C13: an ingestion with at least one valid path that extracts no content
\* unit reports a no-content failure: no memory descriptor, no handle, and a
\* final status other than ingestion_complete.
C13_NoContentIsFailure ==
    \A s \in Slots :
        (Ingested(s) /\ ValidPaths(s) # {} /\ req[s].response.kind = "no_content") =>
            /\ req[s].memory_paths = <<>>
            /\ \A i \in 1..Len(active_memories) : active_memories[i].obj # req[s].rid
            /\ req[s].processing_status # "ingestion_complete"

\* C14: an ingestion that ends ingestion_complete having produced content sets
\* exactly one memory descriptor, and when query() returns the registry holds
\* a handle under that name.
C14_CompleteMeansRegistered ==
    \A s \in Slots :
        (/\ Ingested(s)
         /\ req[s].processing_status = "ingestion_complete"
         /\ req[s].response.kind = "ingestion_summary") =>
            /\ Len(req[s].memory_paths) = 1
            /\ req[s].memory_paths[1] \in RegistryNames(active_memories)

-----------------------------------------------------------------------------
\* The registry and the storage directory over time: calls of query() made one
\* after the other, reload_memories() called at any point between two steps,
\* and artifacts removed from the storage directory from outside the agent.

RegUtterances ==
    { <<"delete", "memories">>,
      <<"list", "memories">>,
      <<"ingest", "\"a.pdf\"", "\"b.txt\"">>,
      <<"what", "is", "machine", "learning?">> }

\* A memory's .mp4 is deleted from storage_path (manage_memory_node tests
\* video_path.exists() for each registered name).
artifact_removed ==
    /\ \E n \in storage : storage' = storage \ {n}
    /\ UNCHANGED <<session_data, heap, active_memories, now, req, nreq, agent, created_at>>

\* Every search returns one chunk: the registry is what varies here.
RegSearches == {[ok |-> TRUE, scores |-> <<1>>]}

RegInit == Init /\ storage = Range(PreExisting)

RegStep(s) ==
    \/ analyze_query_node(s)
    \/ analyze_query_except(s)
    \/ ingest_documents_node(s)
    \/ ingest_documents_except(s)
    \/ retrieve_context(s, RegSearches)
    \/ retrieve_context_except(s)
    \/ assemble_context_node(s)
    \/ assemble_context_except(s)
    \/ generate_response_start(s)
    \/ generate_response_node(s)
    \/ generate_response_except(s)
    \/ manage_memory_node(s)
    \/ manage_memory_except(s)
    \/ handle_errors_node(s)
    \/ query_return(s)

RegNext ==
    \/ query_start_on(1, RegUtterances, {"default"})
    \/ RegStep(1)
    \/ (~InFlight(1) /\ reload_memories)
    \/ (~InFlight(1) /\ artifact_removed)

RegSpec == RegInit /\ [][RegNext]_vars

\* C15: no step of query() removes a name from the registry, whatever the
\* utterance (delete, remove and clear included); a name leaves the registry
\* only in a call of reload_memories().
C15_NamesStayRegistered ==
    [][\/ RegistryNames(active_memories) \subseteq RegistryNames(active_memories')
       \/ reload_memories]_vars

\* A "delete memories" request, made after an ingestion, has returned and the
\* start-up memories and the ingested one are all still registered.
C15_Witness ==
    /\ Returned(1)
    /\ req[1].rid = 2
    /\ Contains(req[1].query, "delete")
    /\ req[1].processing_status = "memory_managed"
    /\ Range(PreExisting) \cup {MemName("documents", 0)}
           \subseteq RegistryNames(active_memories)

\* The step in which the try branch of manage_memory_node serves request s.
ManageStep(s) ==
    /\ req[s].pc = "memory_manager"
    /\ req'[s].processing_status = "memory_managed"

AsksListing(u) == Contains(u, "list") \/ Contains(u, "show")

AsksStatistics(u) ==
    ~AsksListing(u) /\ (Contains(u, "stats") \/ Contains(u, "statistics"))

\* C16: the response to a list request enumerates exactly the names in the
\* registry, one entry per registered handle in registry order, none omitted
\* and none added.
C16_ListingIsRegistry ==
    [][\A s \in Slots :
         (ManageStep(s) /\ AsksListing(req[s].query) /\ active_memories # <<>>) =>
             /\ req'[s].response.kind = "memory_listing"
             /\ req'[s].response.names =
                    [i \in 1..Len(active_memories) |-> active_memories[i].name]]_vars

\* C17: the count reported by a statistics request is the number of content
\* artifacts in the storage directory, whatever the registry holds.
C17_StatisticsFromDirectory ==
    [][\A s \in Slots :
         (ManageStep(s) /\ AsksStatistics(req[s].query)) =>
             /\ req'[s].response.kind = "memory_statistics"
             /\ req'[s].response.nums[1] = Cardinality(storage)]_vars

-----------------------------------------------------------------------------
\* The classifier as a function of the utterance: every sequence of up to
\* MaxTokens tokens of a vocabulary holding quoted paths of both quote styles,
\* a quoted word without extension, and keywords of each pattern list.

MaxTokens == 2

ClassifyVocabulary ==
    {"\"a.pdf\"", "'b.txt'", "\"notes\"", "documents/", "ingest", "list", "show",
     "delete", "what", "hello"}

ClassifyUtterances == UNION {[1..n -> ClassifyVocabulary] : n \in 1..MaxTokens}

ClassifyNext ==
    \/ query_start(1, ClassifyUtterances)
    \/ analyze_query_node(1)
    \/ analyze_query_except(1)

ClassifySpec == Init /\ [][ClassifyNext]_vars

\* Request s has been classified by the try branch of analyze_query_node.
Analyzed(s) ==
    /\ "query_analyzer" \in Range(req[s].executed)
    /\ "query_analyzer" \notin Range(req[s].caught)

\* Tokens in double or single quotes ending in a dot and 2 to 4 letters.
QuotedExtensionTokens ==
    {"\"a.pdf\"", "\"b.txt\"", "\"c.exe\"", "\"missing.pdf\"", "'b.txt'"}

\* C18: an utterance holding a quoted token that ends in a 2-4 letter
\* extension is classified ingest, whatever keywords it also holds, and is
\* routed to the ingestion node.
C18_QuotedPathMeansIngest ==
    \A s \in Slots :
        (Analyzed(s) /\ \E i \in 1..Len(req[s].query) :
                           req[s].query[i] \in QuotedExtensionTokens) =>
            /\ req[s].intent = "ingest"
            /\ Len(req[s].executed) = 1 => req[s].pc = "document_ingestor"
            /\ Len(req[s].executed) > 1 => req[s].executed[2] = "document_ingestor"

\* A single-quoted path next to a management keyword has been classified.
C18_Witness ==
    /\ Analyzed(1)
    /\ req[1].query = <<"list", "'b.txt'">>
    /\ req[1].pc = "document_ingestor"

-----------------------------------------------------------------------------
\* reload_memories() called by another task while a request is in flight.
\* Its two statements, active_memories.clear() and _load_existing_memories(),
\* are separate steps of the calling task; the method is a plain `def` with no
\* await between them, so the event loop runs no other task in between.

\* self.active_memories.clear()
reload_clear(s) ==
    /\ ~InFlight(s)
    /\ req' = [req EXCEPT ![s] = [IdleReq EXCEPT !.pc = "reload_cleared"]]
    /\ active_memories' = <<>>
    /\ UNCHANGED <<session_data, heap, storage, now, nreq, agent, created_at>>

\* return self._load_existing_memories()
reload_scan(s) ==
    /\ req[s].pc = "reload_cleared"
    /\ req' = [req EXCEPT ![s].pc = "returned"]
    /\ \E loadable \in SUBSET storage :
           active_memories' = LoadedFrom(ScanOrder(storage), loadable)
    /\ UNCHANGED <<session_data, heap, storage, now, nreq, agent, created_at>>

Reloading == \E t \in Slots : req[t].pc = "reload_cleared"

\* Runnable as if reload_memories suspended between its two statements.
RunnableDuringReload == TRUE

\* The event loop can run a step of a request task: no task is inside a
\* synchronous call.
Runnable == ~Reloading

ReloadNext ==
    \/ (Runnable /\ query_start(1, RegUtterances))
    \/ (Runnable /\ RegStep(1))
    \/ reload_clear(2)
    \/ reload_scan(2)

ReloadSpec == RegInit /\ [][ReloadNext]_vars

\* The step in which request s iterates over the registry, or registers a handle.
RegistryAccess(s) ==
    \/ req[s].pc = "semantic_retriever" /\ req'[s].pc # "semantic_retriever"
    \/ req[s].pc = "document_ingestor" /\ req'[s].pc # "document_ingestor"

-----------------------------------------------------------------------------
\* A search that never returns.  retriever.search is an ordinary call inside
\* the loop of retrieve_context_node, with no timeout around it: the node
\* stays inside the call.  A request step that can run is eventually run (the
\* event loop schedules every ready task, and llm.ainvoke returns or raises).

search_never_returns(s) ==
    /\ req[s].pc = "semantic_retriever"
    /\ active_memories # <<>>
    /\ req' = [req EXCEPT ![s].pc = "blocked_in_search"]
    /\ UNCHANGED <<session_data, heap, active_memories, storage, now, nreq, agent, created_at>>

HangNext ==
    \/ query_start(1, ConcUtterances)
    \/ Step(1)
    \/ search_never_returns(1)

HangSpec == Init /\ [][HangNext]_vars /\ WF_vars(Step(1))

\* C20: a request that reaches the retrieval fan-out eventually returns, also
\* when the search of one handle never returns.
C20_HungSearchTimesOut ==
    \A s \in Slots : (req[s].pc = "semantic_retriever") ~> (req[s].pc = "returned")

-----------------------------------------------------------------------------
\* Construction: MemvidRAGAgent.__init__ over its arguments and environment.

ProviderArguments == {"", "openai", "anthropic", "google", "cohere"}

DefaultProviders == {"openai", "cohere"}

ConstructInit ==
    /\ session_data = [sid \in SessionIds |-> 0]
    /\ heap = <<>>
    /\ storage \in {{}, Range(PreExisting)}
    /\ active_memories = <<>>
    /\ now = 0
    /\ req = [s \in Slots |-> IdleReq]
    /\ nreq = 0
    /\ \E p \in ProviderArguments, k \in BOOLEAN,
          c \in SUBSET Range(Providers), d \in DefaultProviders :
           agent = NewAgent(p, k, c, d)
    /\ created_at = [sid \in SessionIds |-> -1]

\* Lines 83-100
agent_setup_llm ==
    /\ agent.phase = "new"
    /\ \E clientOk \in BOOLEAN : agent' = SetupLLM(agent, clientOk)
    /\ UNCHANGED <<session_data, heap, active_memories, storage, now, req, nreq, created_at>>

\* Lines 102-116
agent_build_core ==
    /\ agent.phase = "llm_ready"
    /\ agent' = CoreBuilt(agent)
    /\ \E loadable \in SUBSET storage :
           active_memories' = LoadedFrom(ScanOrder(storage), loadable)
    /\ UNCHANGED <<session_data, heap, storage, now, req, nreq, created_at>>

\* Lines 103-105: memory_storage_path.mkdir raised
agent_storage_failed ==
    /\ agent.phase = "llm_ready"
    /\ agent' = ConstructionFailed(agent, "storage_dir")
    /\ UNCHANGED <<session_data, heap, active_memories, storage, now, req, nreq, created_at>>

ConstructNext ==
    \/ agent_setup_llm
    \/ agent_build_core
    \/ agent_storage_failed

ConstructSpec == ConstructInit /\ [][ConstructNext]_vars

Constructed == agent.phase \in {"ready", "failed"}

\* No key was passed and no provider has a key configured.
NoCredential == ~agent.arg_key /\ agent.configured = {}

NothingBuilt ==
    /\ ~agent.graph /\ ~agent.registry /\ ~agent.sessions
    /\ active_memories = <<>>

\* C21 as stated: construction fails if and only if no credential is available
\* for any supported provider, and then nothing of the core is built.
C21_FailsOnlyWithoutCredential ==
    Constructed =>
        /\ agent.phase = "failed" <=> NoCredential
        /\ agent.phase = "failed" => NothingBuilt

\* C21 amended: construction fails with the missing-key error exactly when no
\* credential is available; every other failure is an unsupported provider
\* name, a raising client constructor or a raising mkdir of the storage
\* directory; whenever construction fails nothing of the core is built, and
\* whenever it succeeds graph, registry and session store all are.
C21_FatalConditions ==
    Constructed =>
        /\ NoCredential => agent.phase = "failed" /\ agent.error = "no_api_keys"
        /\ agent.error = "no_api_keys" => NoCredential
        /\ agent.phase = "failed" =>
               /\ NothingBuilt
               /\ agent.error \in {"no_api_keys", "unsupported_provider",
                                    "llm_client", "storage_dir"}
               /\ agent.error = "unsupported_provider" =>
                      agent.llm_provider \notin Range(Providers)
        /\ agent.phase = "ready" =>
               /\ agent.graph /\ agent.registry /\ agent.sessions /\ agent.llm
               /\ agent.llm_provider \in Range(Providers)

\* Construction with an explicit key and a provider name the agent does not
\* know has failed, although keys are configured.
C21_Witness ==
    /\ agent.phase = "failed"
    /\ agent.arg_key
    /\ agent.configured # {}
    /\ agent.error = "unsupported_provider"

-----------------------------------------------------------------------------
\* MemvidRAGAgent.ingest_documents(document_paths, memory_name)

\* f'"{path}"'
Quote(path) ==
    CASE path = "a.pdf"       -> "\"a.pdf\""
      [] path = "b.txt"       -> "\"b.txt\""
      [] path = "c.exe"       -> "\"c.exe\""
      [] path = "missing.pdf" -> "\"missing.pdf\""

\* f"Please ingest these documents: {paths_str}", lower-cased; the commas
\* between the quoted paths are left out.
IngestQuery(document_paths) ==
    <<"please", "ingest", "these", "documents:">>
    \o [i \in 1..Len(document_paths) |-> Quote(document_paths[i])]

\* A name chosen by the caller: no timestamp is part of it.
CustomName == [base |-> "my_notes", ts |-> -1]

ApiDocumentPaths == {<<"a.pdf", "b.txt">>, <<"a.pdf">>, <<"missing.pdf">>}

ApiMemoryNames == {<<>>, <<CustomName>>}

\* Lines 353-357: format the query and call self.query(query), which uses
\* the session "default".
ingest_documents_start_on(s, paths, names) ==
    /\ ~InFlight(s)
    /\ nreq < MaxRequests
    /\ \E document_paths \in paths, memory_name \in names :
         LET sid   == "default"
             fresh == session_data[sid] = 0
             ref   == IF fresh THEN Len(heap) + 1 ELSE session_data[sid]
             h     == IF fresh THEN Append(heap, <<>>) ELSE heap
         IN  /\ heap' = h
             /\ session_data' = [session_data EXCEPT ![sid] = ref]
             /\ req' = [req EXCEPT ![s] =
                          [IdleReq EXCEPT !.pc = "query_analyzer",
                                          !.rid = nreq + 1,
                                          !.session_id = sid,
                                          !.query = IngestQuery(document_paths),
                                          !.messages = ref,
                                          !.processing_status = "initialized",
                                          !.trail = <<"initialized">>,
                                          !.hist_before = h[ref],
                                          !.api = "ingest_documents",
                                          !.memory_name_arg = memory_name]]
             /\ created_at' = SessionCreated(created_at, session_data, sid, now)
    /\ nreq' = nreq + 1
    /\ UNCHANGED <<active_memories, storage, now, agent>>

ingest_documents_start(s) ==
    ingest_documents_start_on(s, ApiDocumentPaths, ApiMemoryNames)

\* Lines 359-364: the returned dictionary, "memory_name": memory_name
ingest_documents_return(s) ==
    /\ req[s].pc = "returned"
    /\ req[s].api = "ingest_documents"
    /\ req' = [req EXCEPT ![s].pc = "api_returned",
                          ![s].result_memory_name = req[s].memory_name_arg]
    /\ UNCHANGED <<session_data, heap, active_memories, storage, now, nreq, agent, created_at>>

ApiNext ==
    \/ ingest_documents_start(1)
    \/ analyze_query_node(1)
    \/ analyze_query_except(1)
    \/ ingest_documents_node(1)
    \/ ingest_documents_except(1)
    \/ handle_errors_node(1)
    \/ query_return(1)
    \/ ingest_documents_return(1)

ApiSpec == Init /\ [][ApiNext]_vars

\* C22: ingest_documents with a custom memory_name N that ingests and
\* registers a memory has registered it under N, and the memory_name of the
\* returned dictionary is the name the memory was registered under.
C22_CustomNameIsUsed ==
    \A s \in Slots :
        (/\ req[s].pc = "api_returned"
         /\ req[s].memory_name_arg # <<>>
         /\ req[s].processing_status = "ingestion_complete"
         /\ \E i \in 1..Len(active_memories) : active_memories[i].obj = req[s].rid) =>
            /\ req[s].memory_name_arg[1] \in RegistryNames(active_memories)
            /\ \E i \in 1..Len(active_memories) :
                   /\ active_memories[i].obj = req[s].rid
                   /\ req[s].result_memory_name = <<active_memories[i].name>>

-----------------------------------------------------------------------------
\* The commands of the help text

\* C23: the two commands the help response advertises do what it says:
\* "list memories" is classified manage and answered with the listing, and
\* "show statistics" is classified manage and answered with the statistics,
\* not the listing.
C23_AdvertisedCommands ==
    \A s \in Slots :
        (Returned(s) /\ req[s].caught = <<>>) =>
            /\ req[s].query = <<"list", "memories">> =>
                   /\ req[s].intent = "manage"
                   /\ req[s].response.kind \in {"memory_listing", "no_memory_stores"}
            /\ req[s].query = <<"show", "statistics">> =>
                   /\ req[s].intent = "manage"
                   /\ req[s].response.kind \in
                          {"memory_statistics", "no_memory_statistics"}

-----------------------------------------------------------------------------
\* The classifier's priority

HasToken(u, tokens) == \E i \in 1..Len(u) : u[i] \in tokens

\* The words of the vocabularies that hold a keyword of each list ("show"
\* holds the search keyword "how").
IngestionWords  == {"ingest", "add"}
ManagementWords == {"list", "show", "stats", "statistics", "manage", "delete"}
SearchWords     == {"what", "show"}

PathOrDirectorySignal(u) == HasToken(u, QuotedExtensionTokens \cup {"documents/"})

\* C24: the intent is ingest when a path or directory signal or an ingestion
\* keyword is present, else manage when a management keyword occurs, else
\* search when a search keyword occurs, else chat; it depends on the utterance
\* alone.
C24_ClassifierPriority ==
    \A s \in Slots : Analyzed(s) =>
        req[s].intent =
            IF PathOrDirectorySignal(req[s].query) \/ HasToken(req[s].query, IngestionWords)
            THEN "ingest"
            ELSE IF HasToken(req[s].query, ManagementWords) THEN "manage"
            ELSE IF HasToken(req[s].query, SearchWords) THEN "search"
            ELSE "chat"

\* A management keyword next to a search keyword has been classified manage.
C24_Witness ==
    /\ Analyzed(1)
    /\ req[1].query = <<"what", "list">>
    /\ req[1].intent = "manage"

-----------------------------------------------------------------------------
\* The analysis node

\* The node that ran, or is about to run, right after the analysis.
AfterAnalysis(s) ==
    IF Len(req[s].executed) > 1 THEN req[s].executed[2] ELSE req[s].pc

\* C25: the analysis node always returns a state: from its try branch the
\* intent is one of ingest, search, chat, manage and the status analyzed; from
\* its except branch the intent is error, the status analysis_error and the
\* message is kept, and the request goes to the error handler next.
C25_AnalysisNeverRaises ==
    \A s \in Slots : Len(req[s].executed) >= 1 =>
        /\ req[s].executed[1] = "query_analyzer"
        /\ Analyzed(s) =>
               /\ req[s].intent \in {"ingest", "search", "chat", "manage"}
               /\ req[s].trail[2] = "analyzed"
        /\ ~Analyzed(s) =>
               /\ req[s].intent = "error"
               /\ req[s].trail[2] = "analysis_error"
               /\ req[s].error_message # ""
               /\ AfterAnalysis(s) = "error_handler"

\* A request whose analysis failed has been answered by the error handler.
C25_Witness ==
    /\ Returned(1)
    /\ req[1].caught = <<"query_analyzer">>
    /\ req[1].executed = <<"query_analyzer", "error_handler">>
    /\ req[1].processing_status = "error_handled"

-----------------------------------------------------------------------------
\* route_query as a function of the intent it finds in the state: the five
\* intents of the routing table, an empty one (also standing for a state
\* without the key, which state.get turns into "chat") and unknown ones.

RouteIntents == {"ingest", "search", "chat", "manage", "error", "", "unknown", "INGEST"}

RouteInit ==
    /\ session_data = [sid \in SessionIds |-> IF sid = "default" THEN 1 ELSE 0]
    /\ heap = << <<>> >>
    /\ storage \in {{}, Range(PreExisting)}
    /\ \E loadable \in SUBSET storage :
           active_memories = LoadedFrom(ScanOrder(storage), loadable)
    /\ now = 0
    /\ nreq = 1
    /\ agent = ReadyAgent
    /\ created_at = [sid \in SessionIds |-> IF session_data[sid] = 0 THEN -1 ELSE 0]
    /\ \E u \in Utterances, i \in RouteIntents :
           req = [s \in Slots |->
                    IF s = 1
                    THEN [IdleReq EXCEPT !.pc = "query_analyzer", !.rid = 1,
                                         !.query = u, !.messages = 1, !.intent = i,
                                         !.processing_status = "analyzed",
                                         !.trail = <<"initialized">>]
                    ELSE IdleReq]

\* The conditional edge after query_analyzer
route_after_analysis(s) ==
    /\ req[s].pc = "query_analyzer"
    /\ Ran(s, "query_analyzer", req[s])
    /\ UNCHANGED <<session_data, heap, active_memories, storage, now, nreq, agent, created_at>>

RouteNext == route_after_analysis(1)

RouteSpec == RouteInit /\ [][RouteNext]_vars

EntryPoints ==
    {"document_ingestor", "semantic_retriever", "memory_manager", "error_handler"}

\* C26: routing is total: ingest goes to ingestion, search and chat both to
\* retrieval, manage to the memory manager, error to the error handler, and
\* any other intent to retrieval; the next stage is always a branch entry.
C26_RoutingIsTotal ==
    \A s \in Slots : req[s].executed = <<"query_analyzer">> =>
        /\ req[s].pc \in EntryPoints
        /\ req[s].intent = "ingest" => req[s].pc = "document_ingestor"
        /\ req[s].intent \in {"search", "chat"} => req[s].pc = "semantic_retriever"
        /\ req[s].intent = "manage" => req[s].pc = "memory_manager"
        /\ req[s].intent = "error" => req[s].pc = "error_handler"
        /\ req[s].intent \notin {"ingest", "search", "chat", "manage", "error"}
               => req[s].pc = "semantic_retriever"

\* A state with an intent outside the table has been routed.
C26_Witness ==
    /\ req[1].executed = <<"query_analyzer">>
    /\ req[1].intent = "unknown"
    /\ req[1].pc = "semantic_retriever"

-----------------------------------------------------------------------------
\* Tagging and truncation

\* The place of chunk c in the merged list sorted by score, ties in
\* collection order.
PlaceInMerge(s, c) == 1 + Cardinality({d \in Candidates(s) : Outranks(s, d, c)})

\* Request s has been through the try branch of the assembler.
Assembled(s) ==
    /\ "context_assembler" \in Range(req[s].executed)
    /\ "context_assembler" \notin Range(req[s].caught)

\* C27: every retrieved chunk carries the name of the handle it came from and
\* its 1-based rank in that handle's results; the stored list is the first
\* min(10, n) elements of the sorted merged list of the n chunks, and the
\* context taken for assembly is the first min(5, n) elements of the same list.
C27_TaggedAndTruncated ==
    \A s \in Slots : Retrieved(s) =>
        LET got == req[s].retrieved_chunks
            n   == Cardinality(Candidates(s))
            ctx == req[s].context.chunks
        IN  /\ \A i \in 1..Len(got) :
                   \E k \in 1..Len(req[s].fanout) :
                       /\ req[s].fanout[k].ok
                       /\ got[i].source = req[s].registry_at_retrieval[k].name
                       /\ got[i].rank \in 1..Len(req[s].fanout[k].scores)
                       /\ got[i].score = req[s].fanout[k].scores[got[i].rank]
            /\ Len(got) = Min(MaxRetrieved, n)
            /\ \A i \in 1..Len(got) : PlaceInMerge(s, got[i]) = i
            /\ ("context_assembler" \notin Range(req[s].executed) \/ Assembled(s)) =>
                   /\ Len(ctx) = Min(MaxContext, n)
                   /\ \A i \in 1..Len(ctx) : ctx[i] = got[i]

\* Twelve or more chunks were collected, ten stored, and the assembler took
\* five of them.
C27_Witness ==
    /\ Retrieved(1)
    /\ Assembled(1)
    /\ Cardinality(Candidates(1)) > MaxRetrieved
    /\ Len(req[1].retrieved_chunks) = MaxRetrieved
    /\ Len(req[1].context.chunks) = MaxContext
    /\ req[1].retrieved_chunks[1].source = MergeMemories[3]
    /\ req[1].retrieved_chunks[1].rank > 1

\* The status a node left: the trail holds "initialized" and then one status
\* per node run.
StatusAfter(s, node) ==
    req[s].trail[1 + CHOOSE k \in 1..Len(req[s].executed) : req[s].executed[k] = node]

\* C28: given no retrieved chunk the assembler sets no_context and an empty
\* context; given n >= 1 chunks it renders the first min(5, n) of them, in
\* order, into one context fragment and sets context_assembled.
C28_AssemblerOutcome ==
    \A s \in Slots : Assembled(s) =>
        LET got == req[s].retrieved_chunks IN
        /\ got = <<>> =>
               /\ StatusAfter(s, "context_assembler") = "no_context"
               /\ req[s].context = EmptyContext
        /\ got # <<>> =>
               /\ StatusAfter(s, "context_assembler") = "context_assembled"
               /\ req[s].context.form = "assembled"
               /\ Len(req[s].context.chunks) = Min(MaxContext, Len(got))
               /\ \A i \in 1..Len(req[s].context.chunks) :
                      req[s].context.chunks[i] = got[i]

\* Six chunks were retrieved from three handles and five were rendered.
C28_Witness ==
    /\ Assembled(1)
    /\ Len(req[1].retrieved_chunks) > MaxContext
    /\ Len(req[1].context.chunks) = MaxContext
    /\ req[1].context.form = "assembled"

\* The request ran the response generator and the collaborator answered.
Generated(s) ==
    /\ Returned(s)
    /\ "response_generator" \in Range(req[s].executed)
    /\ ~req[s].llm_failed

\* C29: a request whose generation succeeds invokes the generative
\* collaborator once, leaves the session history equal to the history before
\* the call followed by its prompt and then its answer, and returns that
\* answer; a request that ends on the ingestion, management or error branch
\* never invokes the collaborator and leaves the history as it was.
C29_OneCallTwoTurns ==
    \A s \in Slots :
        /\ Generated(s) =>
               /\ req[s].llm_calls = 1
               /\ req[s].hist_after =
                     req[s].hist_before \o Turn(req[s].rid, PromptKind(req[s]))
               /\ req[s].response = Resp("llm_answer", <<>>, <<req[s].rid>>, <<>>)
        /\ (Returned(s) /\ "response_generator" \notin Range(req[s].executed)) =>
               /\ BranchesRun(s) \in {{"ingestion"}, {"management"}, {"error"}}
               /\ req[s].llm_calls = 0
               /\ req[s].hist_after = req[s].hist_before

\* The second call on a session got its answer: the two turns of the first
\* call are followed by the two turns of this one.
C29_Witness ==
    /\ Generated(1)
    /\ req[1].rid = 2
    /\ Len(req[1].hist_before) = 2
    /\ Len(req[1].hist_after) = 4
    /\ req[1].hist_after[3].role = "human"
    /\ req[1].hist_after[4].role = "ai"

\* C30: one file that fails does not abort the batch: when the node body ran
\* to its end every valid path was tried exactly once, processed + failed is
\* the number of valid paths and the status is ingestion_complete; the status
\* ingestion_error is left only by the outer handler, which failures inside
\* the per-file loop never reach.
C30_PartialFailureTolerant ==
    \A s \in Slots :
        /\ (Ingested(s) /\ ValidPaths(s) # {}) =>
               /\ Len(req[s].ingestion_stats) = 1
               /\ LET stats == req[s].ingestion_stats[1] IN
                      /\ Len(stats.attempted) = Cardinality(ValidPaths(s))
                      /\ Range(stats.attempted) = ValidPaths(s)
                      /\ stats.processed + stats.failed = Cardinality(ValidPaths(s))
               /\ req[s].processing_status = "ingestion_complete"
        /\ "ingestion_error" \in Range(req[s].trail) =>
               "document_ingestor" \in Range(req[s].caught)

\* Of two valid files one failed and the other was added; a memory was built.
C30_Witness ==
    /\ Ingested(1)
    /\ req[1].processing_status = "ingestion_complete"
    /\ req[1].response.kind = "ingestion_summary"
    /\ req[1].ingestion_stats # <<>>
    /\ req[1].ingestion_stats[1].failed = 1
    /\ req[1].ingestion_stats[1].processed = 1

-----------------------------------------------------------------------------
\* handle_errors_node as a function of the state it is given: any status a node
\* can leave (or none), with or without a captured message, any utterance, and
\* with or without a response already set.

HandlerStatuses ==
    AnalysisOutcomes \cup IngestionOutcomes \cup RetrievalOutcomes
    \cup AssemblyOutcomes \cup GenerationOutcomes \cup ManagementOutcomes
    \cup {"initialized", ""}

HandlerMessages == {"", "analysis failure"}

HandlerResponses == {NoResponse, Resp("llm_answer", <<>>, <<1>>, <<>>)}

HandlerInit ==
    /\ session_data = [sid \in SessionIds |-> IF sid = "default" THEN 1 ELSE 0]
    /\ heap = << <<>> >>
    /\ storage = {}
    /\ active_memories = <<>>
    /\ now = 0
    /\ nreq = 1
    /\ agent = ReadyAgent
    /\ created_at = [sid \in SessionIds |-> IF session_data[sid] = 0 THEN -1 ELSE 0]
    /\ \E u \in Utterances, st \in HandlerStatuses,
          m \in HandlerMessages, r \in HandlerResponses :
           req = [s \in Slots |->
                    IF s = 1
                    THEN [IdleReq EXCEPT !.pc = "error_handler", !.rid = 1,
                                         !.query = u, !.messages = 1,
                                         !.intent = "error",
                                         !.processing_status = st,
                                         !.error_message = m,
                                         !.response = r,
                                         !.executed = <<"query_analyzer">>,
                                         !.trail = <<"initialized", st>>]
                    ELSE IdleReq]

HandlerNext == handle_errors_node(1) \/ query_return(1)

HandlerSpec == HandlerInit /\ [][HandlerNext]_vars

\* The error handler has run for request s.
Handled(s) == req[s].executed = <<"query_analyzer", "error_handler">>

\* The status the handler found.
StatusHandled(s) == req[s].trail[2]

\* What C31 says of the handler apart from the wording of the explanations.
HandlerTable(s) ==
    /\ req[s].processing_status = "error_handled"
    /\ req[s].response.kind = "error_explanation"
    /\ StatusHandled(s) \in error_responses
           => req[s].response.text[1] = StatusHandled(s)
    /\ StatusHandled(s) \notin error_responses
           => req[s].response.text[1] = "unexpected_error"

ErrorStatuses ==
    {"analysis_error", "ingestion_error", "retrieval_error", "generation_error"}

\* C31 (as claimed): the handler answers each of the six statuses with its own
\* explanation and any other with the generic one, overwrites the response,
\* leaves error_handled, and for each *_error status of the table the
\* explanation holds the word "error".
C31_ExplanationsMentionError ==
    \A s \in Slots : Handled(s) =>
        /\ HandlerTable(s)
        /\ StatusHandled(s) \in ErrorStatuses
               => req[s].response.text[1] \in ExplanationsWithError

\* C31 (amended): as above, the word "error" being in the explanations of
\* analysis_error, ingestion_error and generation_error and in the generic
\* one, and not in that of retrieval_error.
C31_HandlerTable ==
    \A s \in Slots : Handled(s) =>
        /\ HandlerTable(s)
        /\ StatusHandled(s) \in ErrorStatuses \ {"retrieval_error"}
               => req[s].response.text[1] \in ExplanationsWithError
        /\ StatusHandled(s) \notin error_responses
               => req[s].response.text[1] \in ExplanationsWithError
        /\ StatusHandled(s) = "retrieval_error"
               => req[s].response.text[1] \notin ExplanationsWithError

\* The handler replaced an answer by the explanation of retrieval_error.
C31_Witness ==
    /\ Handled(1)
    /\ StatusHandled(1) = "retrieval_error"
    /\ req[1].response.text = <<"retrieval_error">>
    /\ req[1].processing_status = "error_handled"

\* C32: the handler's response ends with the captured error message exactly
\* when the utterance contains "debug" and a message was captured; otherwise
\* the response is the explanation alone.
C32_DebugDisclosure ==
    \A s \in Slots : Handled(s) =>
        LET asked == Contains(req[s].query, "debug") /\ req[s].error_message # ""
            text  == req[s].response.text
        IN  /\ asked => text = <<base_response(StatusHandled(s)), req[s].error_message>>
            /\ ~asked => text = <<base_response(StatusHandled(s))>>

\* A message was captured and the utterance did not ask for diagnostics: the
\* response is the explanation alone.
C32_Witness ==
    /\ Handled(1)
    /\ req[1].error_message # ""
    /\ ~Contains(req[1].query, "debug")
    /\ req[1].response.text = <<"analysis_error">>

-----------------------------------------------------------------------------
\* Sessions: calls of query() and ingest_documents() on two session ids, which
\* may overlap (two tasks), while the clock advances.  The storage directory
\* starts empty.

SessionUtterances ==
    { <<"what", "is", "machine", "learning?">>, <<"list", "memories">> }

SessionInit == Init /\ storage = {}

\* The nodes with the outcomes that differ in what they do to the history:
\* the generation succeeds or fails; every search finds the same two chunks.
SessionStep(s) ==
    \/ analyze_query_node(s)
    \/ ingest_documents_node(s)
    \/ retrieve_context(s, RegSearches)
    \/ assemble_context_node(s)
    \/ generate_response_start(s)
    \/ generate_response_node(s)
    \/ generate_response_except(s)
    \/ manage_memory_node(s)
    \/ query_return(s)

SessionNext ==
    \/ \E s \in Slots : query_start(s, SessionUtterances)
    \/ ingest_documents_start_on(1, {<<"missing.pdf">>}, {<<>>})
    \/ \E s \in Slots : SessionStep(s)
    \/ ingest_documents_return(1)
    \/ Tick

SessionSpec == SessionInit /\ [][SessionNext]_vars

\* The session ids that have a record.
SessionRecords == {sid \in SessionIds : session_data[sid] # 0}

\* Request s enters query() in this step.
CallStarts(s) == ~InFlight(s) /\ req'[s].pc = "query_analyzer"

\* C33: a step that starts a call on an id without a record creates the
\* record, with an empty history and the current time; a step that starts a
\* call on a known id leaves that record's history and creation time as they
\* were; the records are those of the ids passed so far (no step other than the
\* start of a call adds one) and none is ever removed or re-created.
C33_LazySessions ==
    [][ /\ SessionRecords \subseteq SessionRecords'
        /\ \A sid \in SessionRecords : created_at'[sid] = created_at[sid]
        /\ \A s \in Slots : CallStarts(s) =>
               LET sid == req'[s].session_id IN
               /\ SessionRecords' = SessionRecords \cup {sid}
               /\ sid \notin SessionRecords =>
                      /\ heap'[session_data'[sid]] = <<>>
                      /\ created_at'[sid] = now
               /\ sid \in SessionRecords =>
                      heap'[session_data'[sid]] = heap[session_data[sid]]
               /\ req'[s].hist_before = heap'[session_data'[sid]]
        /\ (\A s \in Slots : ~CallStarts(s)) => SessionRecords' = SessionRecords
      ]_vars

\* A record made at time 0 was used again after the clock advanced: it kept
\* its creation time and its turns.
C33_Witness ==
    /\ \E s \in Slots :
          /\ req[s].rid = 2
          /\ created_at[req[s].session_id] = 0
          /\ now > 0
          /\ req[s].hist_before # <<>>

\* C34: a step changes the history of a session only if it is a step of a
\* call on that session, whatever other calls are in flight; and a call made
\* through ingest_documents() is a call on the session "default".
C34_SessionsIndependent ==
    [][ /\ \A b \in SessionIds :
               History(b)' # History(b) =>
                   \E s \in Slots : /\ req'[s] # req[s]
                                    /\ req'[s].session_id = b
        /\ \A s \in Slots :
               (req'[s] # req[s] /\ req'[s].api = "ingest_documents") =>
                   \A b \in SessionIds \ {"default"} : History(b)' = History(b)
      ]_vars

\* Two calls on different sessions are suspended at the generation call
\* together; each session holds the prompt of its own call only.
C34_Witness ==
    /\ req[1].pc = "llm_wait" /\ req[2].pc = "llm_wait"
    /\ req[1].session_id # req[2].session_id
    /\ \A s \in Slots :
          History(req[s].session_id) = <<Msg("human", req[s].rid, "no_context_prompt")>>

-----------------------------------------------------------------------------
\* Discovery: _load_existing_memories at construction and at every reload,
\* over a storage directory that changes from outside the agent.  Here a
\* content artifact is described by its stem, whether its companion
\* <stem>_index.json exists and whether MemvidRetriever can load the pair.

Artifact(name, index, intact) == [name |-> name, index |-> index, intact |-> intact]

\* The directories: at most one content artifact for each stem.
Directories ==
    {d \in SUBSET {Artifact(n, i, k) : n \in Range(MergeMemories), i, k \in BOOLEAN} :
        \A a, b \in d : a.name = b.name => a = b}

\* glob("*.mp4"), as stems
Videos(dir) == SelectSeq(MergeMemories, LAMBDA n : \E a \in dir : a.name = n)

\* The stems for which `if index_file.exists()` holds and the MemvidRetriever
\* constructor does not raise.
Loadable(dir) == {a.name : a \in {b \in dir : b.index /\ b.intact}}

load_existing_memories(dir) == LoadedFrom(Videos(dir), Loadable(dir))

DiscoverInit ==
    /\ session_data = [sid \in SessionIds |-> 0]
    /\ heap = <<>>
    /\ storage \in Directories
    /\ active_memories = <<>>
    /\ now = 0
    /\ req = [s \in Slots |-> IdleReq]
    /\ nreq = 0
    /\ agent = SetupLLM(NewAgent("", FALSE, {"openai"}, "openai"), TRUE)
    /\ created_at = [sid \in SessionIds |-> -1]

\* __init__, lines 102-116
discover_at_construction ==
    /\ agent.phase = "llm_ready"
    /\ agent' = CoreBuilt(agent)
    /\ active_memories' = load_existing_memories(storage)
    /\ UNCHANGED <<session_data, heap, storage, now, req, nreq, created_at>>

\* reload_memories: self.active_memories.clear(), then the scan
discover_at_reload ==
    /\ agent.phase = "ready"
    /\ active_memories' = load_existing_memories(storage)
    /\ UNCHANGED <<session_data, heap, storage, now, req, nreq, agent, created_at>>

\* Outside the agent a content artifact appears, disappears, loses or gains
\* its index, or becomes unreadable or readable.
directory_changes ==
    /\ \E d \in Directories :
          /\ d # storage
          /\ Cardinality((d \ storage) \cup (storage \ d)) <= 2
          /\ Cardinality({a.name : a \in (d \ storage) \cup (storage \ d)}) = 1
          /\ storage' = d
    /\ UNCHANGED <<session_data, heap, active_memories, now, req, nreq, agent, created_at>>

DiscoverNext == discover_at_construction \/ discover_at_reload \/ directory_changes

DiscoverSpec == DiscoverInit /\ [][DiscoverNext]_vars

\* The stems backed by a content artifact with its index that loads.
Backed(dir) == {n \in Range(MergeMemories) :
                  \E a \in dir : a.name = n /\ a.index /\ a.intact}

\* C35: the step that constructs the core and every reload leave in the
\* registry exactly the names whose content artifact has its index and loads:
\* an artifact without index is skipped, one that fails to load does not stop
\* the scan, and a handle whose artifacts are gone is dropped.
C35_RegistryIsDiscovery ==
    [][ (storage' = storage) =>
            /\ RegistryNames(active_memories') = Backed(storage)
            /\ NoDuplicates(active_memories')
      ]_vars

\* The registry of a constructed agent holds the third memory only: the first
\* has no index and the second, scanned before the third, cannot be loaded.
C35_Witness ==
    /\ agent.phase = "ready"
    /\ Artifact(MergeMemories[1], FALSE, TRUE) \in storage
    /\ Artifact(MergeMemories[2], TRUE, FALSE) \in storage
    /\ Artifact(MergeMemories[3], TRUE, TRUE) \in storage
    /\ RegistryNames(active_memories) = {MergeMemories[3]}

-----------------------------------------------------------------------------
\* Memory names as strings: sanitize_memory_name and generate_memory_name on
\* sequences of characters.

MaxStem == 3
MaxNameLength == 50

Reserved == {"<", ">", ":", "\"", "/", "\\", "|", "?", "*"}

NameAlphabet == {"a", "_", "<", "/"}

\* n letters
Pad(n) == [i \in 1..n |-> "a"]

PadLengths == {0, 31, 32, 47, 48}

\* The strings given to the two functions: every string of up to MaxStem
\* characters, alone or followed by a run of letters that brings it near or
\* beyond the length limit.
NameInputs ==
    {x \o Pad(n) : x \in UNION {[1..k -> NameAlphabet] : k \in 0..MaxStem},
                   n \in PadLengths}

\* re.sub(r'[<>:"/\\|?*]', '_', name)
ReplaceReserved(x) == [i \in 1..Len(x) |-> IF x[i] \in Reserved THEN "_" ELSE x[i]]

\* re.sub(r'_+', '_', sanitized)
RECURSIVE CollapseUnderscores(_)
CollapseUnderscores(x) ==
    IF Len(x) <= 1 THEN x
    ELSE IF x[1] = "_" /\ x[2] = "_" THEN CollapseUnderscores(Tail(x))
    ELSE <<x[1]>> \o CollapseUnderscores(Tail(x))

\* sanitized.strip('_')
StripUnderscores(x) ==
    LET kept == {i \in 1..Len(x) : x[i] # "_"} IN
    IF kept = {} THEN <<>>
    ELSE SubSeq(x, CHOOSE i \in kept : \A j \in kept : i <= j,
                   CHOOSE i \in kept : \A j \in kept : i >= j)

DefaultName == <<"m", "e", "m", "o", "r", "y">>

\* sanitize_memory_name without the cut at the maximal length.
sanitize_memory_name_uncut(name) ==
    LET sanitized == StripUnderscores(CollapseUnderscores(ReplaceReserved(name)))
    IN  IF sanitized = <<>> THEN DefaultName ELSE sanitized

sanitize_memory_name(name) ==
    LET sanitized == StripUnderscores(CollapseUnderscores(ReplaceReserved(name)))
        cut       == IF Len(sanitized) > MaxNameLength
                     THEN SubSeq(sanitized, 1, MaxNameLength) ELSE sanitized
    IN  IF cut = <<>> THEN DefaultName ELSE cut

\* datetime.now().strftime("%Y%m%d_%H%M%S") at clock value t: fifteen
\* characters, the last being the second.
Timestamp(t) ==
    <<"2", "0", "2", "5", "0", "1", "0", "1", "_", "1", "2", "0", "0", "0">>
    \o <<CASE t = 0 -> "0" [] t = 1 -> "1" [] t = 2 -> "2" [] OTHER -> "3">>

\* generate_memory_name on the stems of `documents`.
generate_memory_name_string(documents, t) ==
    IF Len(documents) = 1
    THEN sanitize_memory_name(documents[1] \o <<"_">> \o Timestamp(t))
    ELSE IF Len(documents) > 1
    THEN <<"d", "o", "c", "u", "m", "e", "n", "t", "s", "_">> \o Timestamp(t)
    ELSE DefaultName \o <<"_">> \o Timestamp(t)

NameInit ==
    /\ session_data = [sid \in SessionIds |-> 0]
    /\ heap = <<>>
    /\ storage = {}
    /\ active_memories = <<>>
    /\ now \in 0..MaxClock
    /\ nreq = 0
    /\ agent = ReadyAgent
    /\ created_at = [sid \in SessionIds |-> -1]
    /\ \E x \in NameInputs :
           req = [s \in Slots |-> IF s = 1 THEN [IdleReq EXCEPT !.query = x] ELSE IdleReq]

\* sanitize_memory_name(x) is called and returns.
sanitize_memory_name_call ==
    /\ req[1].pc = "idle"
    /\ req' = [req EXCEPT ![1].pc = "returned",
                          ![1].api = "sanitize_memory_name",
                          ![1].response = Resp("name", <<>>, <<>>,
                                               sanitize_memory_name(req[1].query))]
    /\ UNCHANGED <<session_data, heap, active_memories, storage, now, nreq, agent, created_at>>

\* generate_memory_name is called with no, one or two paths of stem x
\* (Path(p).stem: not empty, no separator).
generate_memory_name_call ==
    /\ req[1].pc = "idle"
    /\ req[1].query # <<>>
    /\ "/" \notin Range(req[1].query)
    /\ \E n \in 0..2 :
         req' = [req EXCEPT ![1].pc = "returned",
                            ![1].api = "generate_memory_name",
                            ![1].response =
                                Resp("name", <<>>, <<n>>,
                                     generate_memory_name_string(
                                         [i \in 1..n |-> req[1].query], now))]
    /\ UNCHANGED <<session_data, heap, active_memories, storage, now, nreq, agent, created_at>>

NameNext == sanitize_memory_name_call \/ generate_memory_name_call

NameSpec == NameInit /\ [][NameNext]_vars

IsSuffix(s, t) == Len(s) <= Len(t) /\ SubSeq(t, Len(t) - Len(s) + 1, Len(t)) = s

\* C36 (as claimed): the name generate_memory_name returns ends with the
\* whole timestamp: after the stem for one path, after "documents_" for
\* several and after "memory_" for none, whatever the length of the stem.
C36_NameCarriesTimestamp ==
    (req[1].pc = "returned" /\ req[1].api = "generate_memory_name") =>
        LET n    == req[1].response.nums[1]
            name == req[1].response.text
        IN  /\ IsSuffix(Timestamp(now), name)
            /\ n = 0 => name = DefaultName \o <<"_">> \o Timestamp(now)
            /\ n > 1 => name = <<"d", "o", "c", "u", "m", "e", "n", "t", "s", "_">>
                                \o Timestamp(now)

\* C37: sanitize_memory_name(x) is never empty, never longer than 50
\* characters and holds no reserved character; it is "memory" when nothing is
\* left of x after replacing and stripping.
C37_SanitizedNames ==
    (req[1].pc = "returned" /\ req[1].api = "sanitize_memory_name") =>
        LET x    == req[1].query
            name == req[1].response.text
        IN  /\ name # <<>>
            /\ Len(name) <= MaxNameLength
            /\ Range(name) \cap Reserved = {}
            /\ (\A i \in 1..Len(x) : x[i] \in Reserved \cup {"_"}) => name = DefaultName

\* A string of 51 characters with a reserved one was cut to 50.
C37_Witness ==
    /\ req[1].pc = "returned" /\ req[1].api = "sanitize_memory_name"
    /\ Len(req[1].query) = MaxNameLength + 1
    /\ Range(req[1].query) \cap Reserved # {}
    /\ Len(req[1].response.text) = MaxNameLength

\* C38: a request routed to the retrieval branch runs the retriever, the
\* assembler and the generator whatever the first two leave behind; it ends
\* response_generated with the collaborator's answer or generation_error with
\* the generation-failure message.
C38_RetrievalChainAlwaysGenerates ==
    \A s \in Slots :
        (Returned(s) /\ "semantic_retriever" \in Range(req[s].executed)) =>
            /\ req[s].executed = RetrievalChain
            /\ req[s].trail[3] \in RetrievalOutcomes
            /\ req[s].trail[4] \in AssemblyOutcomes
            /\ req[s].processing_status \in GenerationOutcomes
            /\ req[s].processing_status = "response_generated"
                   => req[s].response = Resp("llm_answer", <<>>, <<req[s].rid>>, <<>>)
            /\ req[s].processing_status = "generation_error"
                   => req[s].response.kind = "generation_failed"

\* A retrieval that raised and an assembly that raised were followed by an
\* answer of the collaborator.
C38_Witness ==
    /\ Returned(1)
    /\ req[1].trail = <<"initialized", "analyzed", "retrieval_error",
                        "assembly_error", "response_generated">>
    /\ req[1].response.kind = "llm_answer"

\* The step is one of request s.
StepOf(s) == req'[s] # req[s]

\* The step in which the ingestion node of request s sets a memory descriptor.
ProducesDescriptor(s) ==
    /\ req[s].pc = "document_ingestor"
    /\ req'[s].memory_paths # <<>>

\* C39: every step of a request except the ingestion step that sets a memory
\* descriptor leaves the registry as it is; a request whose intent is search,
\* chat, manage or error changes neither the registry nor the stored
\* artifacts; the registry changes only in such an ingestion step or in a
\* reload.
C39_OnlyIngestionWritesRegistry ==
    [][ /\ \A s \in Slots :
               (StepOf(s) /\ ~ProducesDescriptor(s)) =>
                   active_memories' = active_memories
        /\ \A s \in Slots :
               (StepOf(s) /\ req'[s].intent \in {"search", "chat", "manage", "error"}) =>
                   /\ active_memories' = active_memories
                   /\ storage' = storage
        /\ active_memories' # active_memories =>
               \/ \E s \in Slots : StepOf(s) /\ ProducesDescriptor(s)
               \/ req' = req /\ storage' = storage
      ]_vars

\* After an ingestion registered a third memory, a request to delete memories
\* has returned and the registry still holds the three.
C39_Witness ==
    /\ Returned(1)
    /\ req[1].rid = 2
    /\ req[1].intent = "manage"
    /\ Contains(req[1].query, "delete")
    /\ Len(active_memories) = 3

-----------------------------------------------------------------------------
\* Ingestions one after the other, in the same second or not.

IngestAgainUtterances ==
    { <<"ingest", "\"a.pdf\"", "\"b.txt\"">>, <<"add", "\"a.pdf\"", "\"c.exe\"">> }

IngestAgainNext ==
    \/ query_start_on(1, IngestAgainUtterances, {"default"})
    \/ analyze_query_node(1)
    \/ ingest_documents_node(1)
    \/ ingest_documents_except(1)
    \/ query_return(1)
    \/ Tick

IngestAgainSpec == Init /\ [][IngestAgainNext]_vars

\* C40 (as claimed): an ingestion that registers a handle does so under a name
\* that neither the registry nor the storage directory holds yet: the registry
\* grows by one entry and every earlier entry stays as it was.
C40_NeverOverwrites ==
    [][ \A s \in Slots :
            (ProducesDescriptor(s) /\ active_memories' # active_memories) =>
                LET name == req'[s].memory_paths[1] IN
                /\ name \notin RegistryNames(active_memories)
                /\ name \notin storage
                /\ Len(active_memories') = Len(active_memories) + 1
                /\ \A i \in 1..Len(active_memories) :
                       active_memories'[i] = active_memories[i]
      ]_vars
====
